---------------------------- MODULE Spec2Model ----------------------------
(***************************************************************************)
(* SOC-FeedViz backend (src/backend/server.js): the aggregation cycle,     *)
(* the per-source feed processor, the image cache and the cache store,     *)
(* with the HTTP routes, the CLI commands and the periodic timer that      *)
(* drive them.                                                             *)
(*                                                                         *)
(* Node runs one handler or promise continuation at a time, so every       *)
(* action below is one such run: from the event that resumes the code up   *)
(* to the next await on the network.                                       *)
(***************************************************************************)
EXTENDS Integers, Sequences, FiniteSets, TLC

VARIABLES
    phase,            \* "boot" | "serving" | "crashed": the process
    cli,              \* TRUE once startCLI has installed the keypress handler
    cachedFeeds,      \* let cachedFeeds (the published snapshot)
    isRefreshing,     \* let isRefreshing
    autoRefreshTimer, \* let autoRefreshTimer (TRUE: an interval is set)
    file,             \* FEED_CACHE_FILE on disk
    imagesDir,        \* names of the files in IMAGES_DIR
    cycles,           \* the fetchAllFeeds invocations past their guard
    now,              \* the clock read by Date.now() / new Date()
    answer,           \* what the most recent request was answered
    sinceClear,       \* TRUE from a successful clear until the next cycle starts
    client,           \* a sequential caller of the image cache (SpecCache)
    ALLOWED_IPS       \* const ALLOWED_IPS: the allow list read from the environment

vars == <<phase, cli, cachedFeeds, isRefreshing, autoRefreshTimer, file,
          imagesDir, cycles, now, answer, sinceClear, client, ALLOWED_IPS>>

---------------------------------------------------------------------------
(* Bounds of the model *)

\* cycles that run to completion
MaxCycles == 1
\* calls that the cache client makes per asset
MaxCalls == 2

(* Program constants. The clock counts in units of FETCH_INTERVAL. *)
FETCH_INTERVAL == 1
maxItemsPerFeed == 5
NullTime == 0

\* the clock at process start: late enough for a stored snapshot to be old
StartTime == FETCH_INTERVAL + 2

\* feedConfig.feeds, by name: a configuration of two sources (the configured
\* names are pairwise distinct)
FeedOrder == <<"f1", "f2">>
Feeds == {FeedOrder[i] : i \in DOMAIN FeedOrder}
NumFeeds == Len(FeedOrder)
\* the image URLs that feeds and articles refer to
Urls == {"u1"}
\* the publish dates of feed entries
PubDates == {1}

Null == <<"null">>
Undefined == <<"undefined">>
Remote(u) == <<"remote", u>>
Local(fn) == <<"/images/", fn[1], fn[2]>>
IsLocal(ref) == ref[1] = "/images/"
FileOf(ref) == <<ref[2], ref[3]>>

\* URLs that are not absolute: "/path", and "path" without a leading slash
Rooted(path) == <<"rooted", path>>
Relative(path) == <<"relative", path>>
\* the paths that such URLs hold
ImagePaths == {"p1"}
\* new URL(rawItem.link).origin + path, as one of the URLs
AtOrigin(path) == "u1"

Truthy(ref) == ref # Null /\ ref # Undefined
\* a || b on references
OrElse(a, b) == IF Truthy(a) THEN a ELSE b

---------------------------------------------------------------------------
(* Image cache *)

urlToFilename(url) == <<"md5", url[2]>>
faviconFilename(feedName) == <<"favicon", feedName>>
\* feed.icon of the configuration
IconUrl(feedName) == <<"remote", "icon", feedName>>

existsSync(filename) == filename \in imagesDir

\* the lookup left out: every call downloads
CachedRefNever(filename) == Null

\* if (fs.existsSync(filepath)) return `/images/${filename}`: the reference
\* that cacheImage and cacheFavicon return without a request, or none
CachedRef(filename) == IF existsSync(filename) THEN Local(filename) ELSE Null

---------------------------------------------------------------------------
(* Snapshots as JavaScript values: null, or an object with some of the     *)
(* four snapshot properties.                                               *)

AllFields == {"lastUpdated", "items", "feedStatus", "feedTimestamps"}

JsObject(fields, lastUpdated, items, feedStatus, feedTimestamps) ==
    [isNull |-> FALSE, fields |-> fields,
     lastUpdated |-> IF "lastUpdated" \in fields THEN lastUpdated ELSE NullTime,
     items |-> IF "items" \in fields THEN items ELSE <<>>,
     feedStatus |-> IF "feedStatus" \in fields THEN feedStatus ELSE <<>>,
     feedTimestamps |-> IF "feedTimestamps" \in fields THEN feedTimestamps ELSE <<>>]

JsNull == [isNull |-> TRUE, fields |-> {}, lastUpdated |-> NullTime, items |-> <<>>,
           feedStatus |-> <<>>, feedTimestamps |-> <<>>]

EmptySnapshot == JsObject(AllFields, NullTime, <<>>, <<>>, <<>>)

\* items and lastUpdated written into the published object, the rest left
NewSnapshotInPlace(lastUpdated, allItems, feedStatus, feedTimestamps) ==
    [cachedFeeds EXCEPT !.lastUpdated = lastUpdated, !.items = allItems]

\* the object literal of fetchAllFeeds
NewSnapshot(lastUpdated, allItems, feedStatus, feedTimestamps) ==
    JsObject(AllFields, lastUpdated, allItems, feedStatus, feedTimestamps)

---------------------------------------------------------------------------
(* The persisted snapshot file: JSON.stringify writes the own properties   *)
(* of an object in insertion order and leaves out those whose value is     *)
(* undefined; JSON.parse rebuilds the object from the pairs it reads.      *)

ItemKeys == <<"id", "link", "description", "fullText", "pubDate", "source",
             "sourceIcon", "image", "author">>
RefKeys == {"sourceIcon", "image"}
SnapshotKeys == <<"lastUpdated", "items", "feedStatus", "feedTimestamps">>

Range(s) == {s[i] : i \in DOMAIN s}

StringifyItem(it) ==
    LET all == [i \in 1..Len(ItemKeys) |-> <<ItemKeys[i], it[ItemKeys[i]]>>]
        Kept(p) == p[1] \notin RefKeys \/ p[2] # Undefined
    IN  SelectSeq(all, Kept)

\* the pairs of a map keyed by feed name, in insertion (configuration) order
StringifyMap(m) ==
    LET all == [i \in 1..NumFeeds |-> <<FeedOrder[i], i>>]
        Present(p) == p[1] \in DOMAIN m
        keys == SelectSeq(all, Present)
    IN  [i \in 1..Len(keys) |-> <<keys[i][1], m[keys[i][1]]>>]

StringifyField(v, k) ==
    CASE k = "lastUpdated" -> v.lastUpdated
      [] k = "items" -> [i \in 1..Len(v.items) |-> StringifyItem(v.items[i])]
      [] k = "feedStatus" -> StringifyMap(v.feedStatus)
      [] k = "feedTimestamps" -> StringifyMap(v.feedTimestamps)

JSONstringify(v) ==
    IF v.isNull THEN <<"null">>
    ELSE LET all == [i \in 1..Len(SnapshotKeys) |-> SnapshotKeys[i]]
             Present(k) == k \in v.fields
             keys == SelectSeq(all, Present)
         IN  <<"object", [i \in 1..Len(keys) |-> <<keys[i], StringifyField(v, keys[i])>>]>>

ParsePairs(pairs) ==
    [k \in {p[1] : p \in Range(pairs)} |-> (CHOOSE p \in Range(pairs) : p[1] = k)[2]]

\* JSON.parse throws a SyntaxError on text that is not JSON
Parseable(doc) == doc[1] # "garbage"

JSONparse(doc) ==
    IF doc[1] = "null" THEN JsNull
    ELSE LET o == ParsePairs(doc[2])
             has == DOMAIN o
         IN  JsObject(has,
                 IF "lastUpdated" \in has THEN o["lastUpdated"] ELSE NullTime,
                 IF "items" \in has
                     THEN [i \in 1..Len(o["items"]) |-> ParsePairs(o["items"][i])]
                     ELSE <<>>,
                 IF "feedStatus" \in has THEN ParsePairs(o["feedStatus"]) ELSE <<>>,
                 IF "feedTimestamps" \in has THEN ParsePairs(o["feedTimestamps"]) ELSE <<>>)

Absent == <<"absent">>
FileWith(doc) == <<"file", doc>>
FileExists(f) == f[1] = "file"

---------------------------------------------------------------------------
(* Text: a string is the sequence of its characters (a name that is only   *)
(* compared as a whole is one token)                                       *)

DigitChars == <<"0", "1", "2", "3", "4", "5", "6", "7", "8", "9">>

RECURSIVE Digits(_)
\* the decimal digits of n
Digits(n) ==
    IF n < 10 THEN <<DigitChars[n + 1]>>
    ELSE Digits(n \div 10) \o <<DigitChars[(n % 10) + 1]>>

IsDigits(s) == s # <<>> /\ \A i \in DOMAIN s : s[i] \in Range(DigitChars)

RECURSIVE parseInt(_)
\* parseInt(s) for a string of digits; the empty string gives NaN, which
\* slice() treats as 0
parseInt(s) ==
    IF s = <<>> THEN 0
    ELSE parseInt(SubSeq(s, 1, Len(s) - 1)) * 10
            + (CHOOSE d \in 0..9 : DigitChars[d + 1] = s[Len(s)])

RECURSIVE join(_, _)
\* parts.join(sep)
join(parts, sep) ==
    IF parts = <<>> THEN <<>>
    ELSE IF Len(parts) = 1 THEN parts[1]
    ELSE parts[1] \o sep \o join(Tail(parts), sep)

RECURSIVE split(_, _)
\* s.split(ch)
split(s, ch) ==
    IF ch \notin Range(s) THEN <<s>>
    ELSE LET i == CHOOSE k \in DOMAIN s : s[k] = ch /\ \A j \in 1..(k - 1) : s[j] # ch
         IN  <<SubSeq(s, 1, i - 1)>> \o split(SubSeq(s, i + 1, Len(s)), ch)

\* a.slice(0, n)
slice(a, n) == SubSeq(a, 1, IF n < Len(a) THEN n ELSE Len(a))

startsWith(s, prefix) == Len(prefix) <= Len(s) /\ SubSeq(s, 1, Len(prefix)) = prefix
endsWith(s, suffix) ==
    Len(suffix) <= Len(s) /\ SubSeq(s, Len(s) - Len(suffix) + 1, Len(s)) = suffix

RECURSIVE trim(_)
trim(s) ==
    IF s = <<>> THEN s
    ELSE IF Head(s) = " " THEN trim(Tail(s))
    ELSE IF s[Len(s)] = " " THEN trim(SubSeq(s, 1, Len(s) - 1))
    ELSE s

---------------------------------------------------------------------------
(* The access gate: getClientIp, isIpAllowed, ipAllowListMiddleware *)

\* the dotted text of an IPv4 address given by its octets
V4(octets) == join([i \in 1..Len(octets) |-> Digits(octets[i])], <<".">>)
\* the allow-list entry network/prefix
Cidr(network, prefix) == V4(network) \o <<"/">> \o Digits(prefix)

Star == <<"*">>
LoopbackAliases == {V4(<<127, 0, 0, 1>>), <<":", ":", "1">>, <<"localhost">>}

\* process.env.ALLOWED_IPS || '127.0.0.1,::1,localhost'
DefaultAllowed == <<V4(<<127, 0, 0, 1>>), <<":", ":", "1">>, <<"localhost">>>>

\* network.split('.').slice(0, parseInt(prefix) / 8).join('.')
CidrPrefix(allowed) ==
    LET parts == split(allowed, "/")
        network == parts[1]
        prefix == IF Len(parts) > 1 THEN parts[2] ELSE <<>>
    IN  join(slice(split(network, "."), parseInt(prefix) \div 8), <<".">>)

\* the body of the loop over ALLOWED_IPS: allowed.includes('/') and
\* ip.startsWith(the prefix)
CidrAdmits(allowed, ip) ==
    "/" \in Range(allowed) /\ startsWith(ip, CidrPrefix(allowed))

isIpAllowed(ip) ==
    IF Star \in Range(ALLOWED_IPS) THEN TRUE
    ELSE IF ip \in Range(ALLOWED_IPS) THEN TRUE
    ELSE IF ip \in LoopbackAliases
        THEN \E i \in DOMAIN ALLOWED_IPS : ALLOWED_IPS[i] \in LoopbackAliases
    ELSE \E i \in DOMAIN ALLOWED_IPS : CidrAdmits(ALLOWED_IPS[i], ip)

\* a || b on strings: the empty string and a missing header are falsy
OrText(a, b) == IF a # <<>> THEN a ELSE b

\* req.xff is the x-forwarded-for header split at its commas (empty: no
\* header), req.xreal the x-real-ip header, req.remote the socket's address
getClientIp(req) ==
    OrText(IF req.xff = <<>> THEN <<>> ELSE trim(req.xff[1]),
      OrText(req.xreal,
        OrText(req.remote, <<"unknown">>)))

\* API_ENDPOINTS and two static paths
FEEDS == <<"/", "api", "/", "feeds">>
STATUS == <<"/", "api", "/", "status">>
REFRESH == <<"/", "api", "/", "refresh">>
CACHE == <<"/", "api", "/", "cache">>
Paths == {FEEDS, STATUS, REFRESH, CACHE,
          <<"/", "images", "/", "a", ".png">>, <<"/", "index", ".html">>}

\* the paths that ipAllowListMiddleware lets through unchecked
StaticPath(path) ==
    \/ startsWith(path, <<"/", "images", "/">>)
    \/ endsWith(path, <<".html">>) \/ endsWith(path, <<".css">>) \/ endsWith(path, <<".js">>)

\* ipAllowListMiddleware answers 403 instead of calling next()
Blocked(req) == ~StaticPath(req.path) /\ ~isIpAllowed(getClientIp(req))

\* the addresses that requests come from or name in their headers
Addresses ==
    {V4(<<1, 1, 1, 1>>), V4(<<1, 1, 10, 1>>), V4(<<10, 1, 1, 1>>),
     V4(<<127, 0, 0, 1>>), <<":", ":", "1">>}

Requests ==
    [path : Paths,
     xff : {<<>>, << V4(<<1, 1, 1, 1>>) \o <<" ">>, V4(<<10, 1, 1, 1>>) >>,
            << <<>>, V4(<<1, 1, 1, 1>>) >>},
     xreal : {<<>>, V4(<<1, 1, 10, 1>>)},
     remote : Addresses \cup {<<>>}]

\* the allow lists that the process is started with
AllowLists ==
    {DefaultAllowed, <<Star>>, <<V4(<<1, 1, 1, 1>>)>>,
     <<Cidr(<<1, 1, 1, 0>>, 24)>>, <<Cidr(<<1, 1, 0, 0>>, 16)>>,
     <<Cidr(<<1, 0, 0, 0>>, 8)>>, <<Cidr(<<127, 0, 0, 0>>, 8)>>,
     <<Cidr(<<10, 1, 1, 1>>, 32)>>,
     <<V4(<<10, 1, 1, 1>>), Cidr(<<1, 1, 10, 0>>, 24)>>}

---------------------------------------------------------------------------
(* Cache statistics: what GET /api/status and the CLI menu report *)

getCacheStats ==
    [feeds |-> NumFeeds,
     articles |-> Len(cachedFeeds.items),
     images |-> Cardinality(imagesDir),
     lastUpdated |-> IF cachedFeeds.lastUpdated # NullTime
                         THEN <<"at", cachedFeeds.lastUpdated>> ELSE <<"Never">>]

---------------------------------------------------------------------------
(* Feed reader and content extractor: what the network can answer *)

\* A string of HTML or text, by its lengths: text counts the characters
\* that tag stripping and whitespace normalisation leave, markup those that
\* they take away
Html(markup, text) == [isNull |-> FALSE, markup |-> markup, text |-> text]
NullText == [isNull |-> TRUE, markup |-> 0, text |-> 0]
length(s) == s.markup + s.text
\* a || b on strings: null and '' are falsy
OrString(a, b) == IF ~a.isNull /\ length(a) > 0 THEN a ELSE b

\* if (!html) return ''; html.replace(/<[^>]+>/g, ' ').replace(/\s+/g, ' ').trim()
stripHtml(html) == Html(0, html.text)
\* s.substring(0, n) of a string without markup
substring(s, n) == Html(0, IF s.text < n THEN s.text ELSE n)

\* a date string as the feed reader hands it over: one that new Date()
\* parses, none (missing or ''), or text that new Date() cannot parse
DateString(d) == [kind |-> "date", at |-> d]
NoDate == [kind |-> "none", at |-> 0]
InvalidDate == [kind |-> "invalid", at |-> 0]

\* one entry of the feed reader: its position in the feed stands for its
\* link, image is what the patterns of parseFeed find in its HTML
Entry(link, image, published, updated, description) ==
    [link |-> link, image |-> image, published |-> published, updated |-> updated,
     description |-> description]

\* the entries that feeds hold: with or without an image
RawEntries ==
    {Entry(1, image, DateString(d), NoDate, Html(0, 1)) :
        image \in {Null} \cup {Remote(u) : u \in Urls}, d \in PubDates}
\* the entries of one feed read: none, or one
FeedReads == {<<>>} \cup {<<e>> : e \in RawEntries}

\* the callback of feed.entries.map in parseFeed
parseEntry(entry) ==
    [link |-> entry.link,
     description |-> OrString(entry.description, Html(0, 0)),
     pubDate |-> IF entry.published.kind # "none" THEN entry.published
                 ELSE IF entry.updated.kind # "none" THEN entry.updated
                 ELSE DateString(now),
     image |-> entry.image]

\* article.image || null
ArticleImages == {Null} \cup {Remote(u) : u \in Urls}

\* what extractArticle resolves with: an article, or nothing (a falsy value
\* or a rejection, which extractArticleContent treats alike)
Article(content, description, image) ==
    [isNull |-> FALSE, content |-> content, description |-> description, image |-> image,
     author |-> Null]
NoArticle == [isNull |-> TRUE, content |-> NullText, description |-> NullText, image |-> Null,
              author |-> Null]
\* article.author, when the article names one
Author == <<"author">>
Articles == {NoArticle} \cup {Article(Html(0, 1), NullText, image) : image \in ArticleImages}

\* content.length > 2000: content.substring(0, 2000) + '...'
ContentLimit == 2000
EllipsisLength == 3
\* description: stripHtml(rawItem.description).substring(0, 300)
DescriptionLimit == 300

\* extractArticleContent: the normalised and truncated content, else the
\* article's description, else null; never a rejection
extractArticleContent(article) ==
    IF article.isNull THEN [fullText |-> NullText, image |-> Null, author |-> Null]
    ELSE LET content == Html(0, article.content.text)
             truncated == IF length(content) > ContentLimit
                            THEN Html(0, ContentLimit + EllipsisLength) ELSE content
         IN  [fullText |-> OrString(truncated, OrString(article.description, NullText)),
              image |-> OrElse(article.image, Null),
              author |-> OrElse(article.author, Null)]
\* error.message of a failed feed read
ReadError == <<"message", "timeout">>

---------------------------------------------------------------------------
(* processFeed: the state of one source processor between two awaits *)

\* const items = []; await parseFeed(feed.url)
\* rawCount is rawItems.length; fullText and author are those of the item to
\* be pushed, fixed once the extractor has answered
ProcStart == [pc |-> "parse", rawCount |-> 0, raw |-> <<>>, items |-> <<>>, icon |-> Null,
              best |-> Null, fullText |-> NullText, author |-> Null, success |-> TRUE,
              error |-> Undefined]

\* the for loop's next turn: await extractArticleContent, or the return
NextEntry(p) == IF p.raw = <<>> THEN [p EXCEPT !.pc = "done"]
                ELSE [p EXCEPT !.pc = "extract"]

\* the catch block of processFeed
ProcFailed(p, message) ==
    [p EXCEPT !.pc = "done", !.success = FALSE, !.error = message,
              !.rawCount = 0, !.raw = <<>>, !.items = <<>>]

\* an id without the position of the item
ItemIdNoIndex(feedName, items) == <<feedName, now, 0>>

\* `${feed.name}-${Date.now()}-${items.length}`
ItemId(feedName, items) == <<feedName, now, Len(items)>>

\* fullText without the fallback to the feed description
FullTextNoFallback(articleText, rawItem) == articleText

\* articleContent.fullText || stripHtml(rawItem.description)
FullTextOf(articleText, rawItem) == OrString(articleText, stripHtml(rawItem.description))

\* the object literal of items.push({...})
NewItem(p, feedName, cachedImageUrl) ==
    LET rawItem == Head(p.raw) IN
    [id |-> ItemId(feedName, p.items),
     link |-> rawItem.link,
     description |-> substring(stripHtml(rawItem.description), DescriptionLimit),
     fullText |-> p.fullText,
     pubDate |-> rawItem.pubDate.at,
     source |-> feedName,
     sourceIcon |-> OrElse(p.icon, IconUrl(feedName)),
     image |-> OrElse(cachedImageUrl, p.best),
     author |-> OrElse(p.author, Null)]

\* the loop body without its try: the RangeError reaches the catch block of
\* processFeed
PushItemUncaught(p, feedName, cachedImageUrl) ==
    LET rest == [p EXCEPT !.raw = Tail(@), !.best = Null, !.fullText = NullText,
                          !.author = Null]
    IN  IF Head(p.raw).pubDate.kind = "invalid" THEN ProcFailed(rest, ReadError)
        ELSE NextEntry([rest EXCEPT !.items = Append(@, NewItem(p, feedName, cachedImageUrl))])

\* items.push({...}) for the current entry; new Date(rawItem.pubDate)
\* .toISOString() throws a RangeError on a date that does not parse, and the
\* catch around the loop body skips the entry
PushItem(p, feedName, cachedImageUrl) ==
    LET rest == [p EXCEPT !.raw = Tail(@), !.best = Null, !.fullText = NullText,
                          !.author = Null]
    IN  IF Head(p.raw).pubDate.kind = "invalid" THEN NextEntry(rest)
        ELSE NextEntry([rest EXCEPT !.items = Append(@, NewItem(p, feedName, cachedImageUrl))])

\* a cut one entry too late
LimitOneMore(rawItems) ==
    SubSeq(rawItems, 1, IF Len(rawItems) < maxItemsPerFeed + 1 THEN Len(rawItems)
                        ELSE maxItemsPerFeed + 1)

\* rawItems.slice(0, feedConfig.maxItemsPerFeed)
Limit(rawItems) ==
    SubSeq(rawItems, 1, IF Len(rawItems) < maxItemsPerFeed THEN Len(rawItems)
                        ELSE maxItemsPerFeed)

---------------------------------------------------------------------------
(* fetchAllFeeds *)

\* the guard left out
BusyUnchecked == FALSE

\* if (isRefreshing) return cachedFeeds
Busy == isRefreshing

\* thenCLI: the caller is the listen callback, which starts the CLI afterwards
Cycle(trigger) == [thenCLI |-> (trigger = "startup"), proc |-> [f \in Feeds |-> ProcStart]]

\* the synchronous head of fetchAllFeeds, up to await Promise.all
BeginCycle(trigger) ==
    /\ now - StartTime - Len(cycles) < MaxCycles
    /\ isRefreshing' = TRUE
    /\ cycles' = Append(cycles, Cycle(trigger))
    /\ now' = now + 1
    /\ answer' = "started"
    /\ sinceClear' = FALSE

\* a call of fetchAllFeeds: return cachedFeeds at once, or run a cycle
fetchAllFeeds(trigger) ==
    IF Busy
        THEN /\ answer' = "stale"
             /\ UNCHANGED <<isRefreshing, cycles, now, sinceClear>>
        ELSE BeginCycle(trigger)

RECURSIVE Concat(_, _)
\* allItems.push(...result.items) over the results, in configuration order
Concat(proc, i) ==
    IF i > NumFeeds THEN <<>> ELSE proc[FeedOrder[i]].items \o Concat(proc, i + 1)

\* a sort that puts an item before the items of its date
RECURSIVE InsertBeforeEqual(_, _)
InsertBeforeEqual(sorted, it) ==
    IF sorted = <<>> THEN <<it>>
    ELSE IF Head(sorted).pubDate > it.pubDate
         THEN <<Head(sorted)>> \o InsertBeforeEqual(Tail(sorted), it)
         ELSE <<it>> \o sorted

RECURSIVE InsertSorted(_, _)
InsertSorted(sorted, it) ==
    IF sorted = <<>> THEN <<it>>
    ELSE IF Head(sorted).pubDate >= it.pubDate
         THEN <<Head(sorted)>> \o InsertSorted(Tail(sorted), it)
         ELSE <<it>> \o sorted

RECURSIVE SortByPubDate(_)
\* allItems.sort((a, b) => new Date(b.pubDate) - new Date(a.pubDate)): stable
SortByPubDate(its) ==
    IF its = <<>> THEN <<>>
    ELSE InsertSorted(SortByPubDate(SubSeq(its, 1, Len(its) - 1)), its[Len(its)])

\* feedStatus[result.feedName] = {success, itemCount, error}
\* a count of the entries read instead of the items built
StatusOfEntriesRead(p) == [success |-> p.success, itemCount |-> p.rawCount,
                           error |-> OrElse(p.error, Null)]

\* success, itemCount: result.items?.length || 0, error: result.error || null
StatusOf(p) == [success |-> p.success, itemCount |-> Len(p.items),
                error |-> OrElse(p.error, Null)]

\* a join that gives up on the first failed source
MergeItemsFailFast(proc) ==
    IF \E f \in Feeds : ~proc[f].success THEN <<>> ELSE SortByPubDate(Concat(proc, 1))

\* the previous items kept when the cycle brought none
MergeItemsKeepLast(proc) ==
    IF Concat(proc, 1) = <<>> THEN cachedFeeds.items ELSE SortByPubDate(Concat(proc, 1))

MergeItems(proc) == SortByPubDate(Concat(proc, 1))

\* the published snapshot kept when no source succeeded
BuildSnapshotUnlessAllFailed(proc) ==
    IF \A f \in Feeds : ~proc[f].success THEN cachedFeeds
    ELSE NewSnapshot(now, MergeItems(proc),
                     [f \in Feeds |-> StatusOf(proc[f])],
                     [f \in Feeds |-> now])

\* the snapshot that the loop over the results builds
BuildSnapshot(proc) ==
    NewSnapshot(now, MergeItems(proc),
                [f \in Feeds |-> StatusOf(proc[f])],
                [f \in Feeds |-> now])

---------------------------------------------------------------------------
(* The assets that cacheImage(url) and cacheFavicon(icon, name) can name *)

ClientAssets == {urlToFilename(Remote(u)) : u \in Urls}
                    \cup {faviconFilename(f) : f \in Feeds}

\* log[a]: per call made for asset a, the reference it returned and whether
\* it issued a request
ClientOff == [pc |-> "off", fn |-> <<"none", "none">>,
              log |-> [a \in ClientAssets |-> <<>>]]

---------------------------------------------------------------------------
(* The state at process start *)

\* a snapshot that an earlier run saved at time t: one item of the first feed
StoredSnapshot(t) ==
    NewSnapshot(t,
        << [id |-> <<FeedOrder[1], t, 0>>, link |-> 1, description |-> Html(0, 1),
            fullText |-> Html(0, 1), pubDate |-> 1, source |-> FeedOrder[1],
            sourceIcon |-> IconUrl(FeedOrder[1]), image |-> Null, author |-> Null] >>,
        [f \in Feeds |-> [success |-> TRUE,
                          itemCount |-> IF f = FeedOrder[1] THEN 1 ELSE 0,
                          error |-> Null]],
        [f \in Feeds |-> t])

\* FEED_CACHE_FILE as the process can find it: absent, not JSON, JSON that
\* is no snapshot (null, {}, an object without items), an old or a fresh snapshot
InitialFiles ==
    {Absent, FileWith(<<"garbage">>), FileWith(<<"null">>),
     FileWith(<<"object", <<>>>>),
     FileWith(<<"object", << <<"lastUpdated", 1>> >> >>),
     FileWith(JSONstringify(StoredSnapshot(StartTime - FETCH_INTERVAL - 1))),
     FileWith(JSONstringify(StoredSnapshot(StartTime - FETCH_INTERVAL)))}

Init ==
    /\ phase = "boot"
    /\ cli = FALSE
    /\ cachedFeeds = EmptySnapshot
    /\ isRefreshing = FALSE
    /\ autoRefreshTimer = FALSE
    /\ file \in InitialFiles
    /\ imagesDir = {}
    /\ cycles = <<>>
    /\ now = StartTime
    /\ answer = "none"
    /\ sinceClear = FALSE
    /\ client = ClientOff
    /\ ALLOWED_IPS = DefaultAllowed

---------------------------------------------------------------------------
(* loadCache and the app.listen callback *)

\* cachedFeeds after loadCache: the assignment happens before anything in
\* the try block can throw after it, and every throw is caught
loadCache ==
    IF FileExists(file) /\ Parseable(file[2]) THEN JSONparse(file[2]) ELSE cachedFeeds

\* !cachedFeeds.lastUpdated || cachedFeeds.items.length === 0 throws a
\* TypeError on null, and on an object with lastUpdated and without items
StartupThrows(loaded) ==
    \/ loaded.isNull
    \/ loaded.lastUpdated # NullTime /\ "items" \notin loaded.fields

StartupFetches(loaded) ==
    \/ loaded.lastUpdated = NullTime
    \/ Len(loaded.items) = 0
    \/ now - loaded.lastUpdated > FETCH_INTERVAL

Listen ==
    /\ phase = "boot"
    /\ LET loaded == loadCache IN
        /\ cachedFeeds' = loaded
        /\ IF StartupThrows(loaded)
             THEN /\ phase' = "crashed"
                  /\ UNCHANGED <<cli, isRefreshing, cycles, now, answer, sinceClear>>
             ELSE /\ phase' = "serving"
                  /\ IF StartupFetches(loaded)
                       THEN /\ fetchAllFeeds("startup")
                            /\ UNCHANGED cli
                       ELSE /\ cli' = TRUE
                            /\ UNCHANGED <<isRefreshing, cycles, now, answer, sinceClear>>
    /\ UNCHANGED <<autoRefreshTimer, file, imagesDir, client, ALLOWED_IPS>>

---------------------------------------------------------------------------
(* HTTP routes *)

\* res.json({...cachedFeeds, imageFallbacks}), without the fallbacks
FeedsResponse == cachedFeeds

GetFeeds ==
    /\ phase = "serving"
    /\ UNCHANGED vars

\* res.json({status: 'running', ...stats, feedStatus})
StatusResponse == getCacheStats

GetStatus ==
    /\ phase = "serving"
    /\ UNCHANGED vars

\* the 409 check left out
RefreshConflictUnchecked == FALSE

\* if (isRefreshing) return res.status(409)
RefreshConflict == isRefreshing

PostRefresh ==
    /\ phase = "serving"
    /\ IF RefreshConflict
         THEN /\ answer' = "409"
              /\ UNCHANGED <<isRefreshing, cycles, now, sinceClear>>
         ELSE /\ fetchAllFeeds("http")
    /\ UNCHANGED <<phase, cli, cachedFeeds, autoRefreshTimer, file, imagesDir, client, ALLOWED_IPS>>

\* the try block shared by DELETE /api/cache and the CLI clear command
ClearSucceeds ==
    /\ imagesDir' = {}
    /\ file' = Absent
    /\ cachedFeeds' = EmptySnapshot
    /\ sinceClear' = TRUE

\* the snapshot reset placed before the filesystem calls: a throw comes
\* after it
ClearThrowsAfterReset ==
    /\ \E kept \in SUBSET imagesDir :
         /\ kept # {} \/ imagesDir = {} \/ FileExists(file)
         /\ imagesDir' = kept
    /\ cachedFeeds' = EmptySnapshot
    /\ UNCHANGED <<file, sinceClear>>

\* readdirSync or an unlinkSync throws: the assets unlinked before it are
\* gone, the snapshot file is still there unless it was already absent, and
\* the assignment to cachedFeeds is not reached
ClearThrows ==
    /\ \E kept \in SUBSET imagesDir :
         /\ kept # {} \/ imagesDir = {} \/ FileExists(file)
         /\ imagesDir' = kept
    /\ UNCHANGED <<file, cachedFeeds, sinceClear>>

\* res.json({message}) after the try block, res.status(500) in the catch
DeleteCache ==
    /\ phase = "serving"
    /\ \/ ClearSucceeds /\ answer' = "200"
       \/ ClearThrows /\ answer' = "500"
    /\ UNCHANGED <<phase, cli, isRefreshing, autoRefreshTimer, cycles, now, client, ALLOWED_IPS>>

\* the route that a request reaches once the gate has called next(); the
\* static middleware changes nothing
Route(req) ==
    CASE req.path = FEEDS -> GetFeeds
      [] req.path = STATUS -> GetStatus
      [] req.path = REFRESH -> PostRefresh
      [] req.path = CACHE -> DeleteCache
      [] OTHER -> phase = "serving" /\ UNCHANGED vars

\* app.use(ipAllowListMiddleware) in front of everything: 403, or next()
Request(req) ==
    IF Blocked(req)
      THEN /\ phase = "serving"
           /\ answer' = "403"
           /\ UNCHANGED <<phase, cli, cachedFeeds, isRefreshing, autoRefreshTimer, file,
                          imagesDir, cycles, now, sinceClear, client, ALLOWED_IPS>>
      ELSE Route(req)

---------------------------------------------------------------------------
(* CLI commands and the periodic timer *)

CliRefresh ==
    /\ phase = "serving" /\ cli
    /\ fetchAllFeeds("cli")
    /\ UNCHANGED <<phase, cli, cachedFeeds, autoRefreshTimer, file, imagesDir, client, ALLOWED_IPS>>

CliClear ==
    /\ phase = "serving" /\ cli
    /\ ClearSucceeds \/ ClearThrows
    /\ UNCHANGED <<phase, cli, isRefreshing, autoRefreshTimer, cycles, now, answer, client, ALLOWED_IPS>>

CliToggleAuto ==
    /\ phase = "serving" /\ cli
    /\ autoRefreshTimer' = ~autoRefreshTimer
    /\ UNCHANGED <<phase, cli, cachedFeeds, isRefreshing, file, imagesDir, cycles,
                   now, answer, sinceClear, client, ALLOWED_IPS>>

\* setInterval(fetchAllFeeds, FETCH_INTERVAL) fires
TimerTick ==
    /\ phase = "serving" /\ autoRefreshTimer
    /\ fetchAllFeeds("timer")
    /\ UNCHANGED <<phase, cli, cachedFeeds, autoRefreshTimer, file, imagesDir, client, ALLOWED_IPS>>

---------------------------------------------------------------------------
(* The continuations of one source processor *)

SetProc(c, f, p) == cycles' = [cycles EXCEPT ![c].proc[f] = p]

\* fs.writeFileSync(filepath, buffer)
WriteAsset(fn) == imagesDir' = imagesDir \cup {fn}

\* parseFeed rejects: the catch block of processFeed
ParseFailed(c, f) ==
    /\ phase = "serving"
    /\ cycles[c].proc[f].pc = "parse"
    /\ SetProc(c, f, ProcFailed(cycles[c].proc[f], ReadError))
    /\ UNCHANGED <<phase, cli, cachedFeeds, isRefreshing, autoRefreshTimer, file,
                   imagesDir, now, answer, sinceClear, client, ALLOWED_IPS>>

\* parseFeed resolves; the favicon is looked up in the cache and, when it is
\* there, the loop over the entries starts
ParseDoneOf(c, f, reads) ==
    /\ phase = "serving"
    /\ cycles[c].proc[f].pc = "parse"
    /\ \E entries \in reads :
         LET rawItems == [i \in DOMAIN entries |-> parseEntry(entries[i])]
             q == [cycles[c].proc[f] EXCEPT !.rawCount = Len(rawItems),
                                            !.raw = Limit(rawItems)] IN
         IF Truthy(CachedRef(faviconFilename(f)))
           THEN SetProc(c, f, NextEntry([q EXCEPT !.icon = CachedRef(faviconFilename(f))]))
           ELSE SetProc(c, f, [q EXCEPT !.pc = "favicon"])
    /\ UNCHANGED <<phase, cli, cachedFeeds, isRefreshing, autoRefreshTimer, file,
                   imagesDir, now, answer, sinceClear, client, ALLOWED_IPS>>

ParseDone(c, f) == ParseDoneOf(c, f, FeedReads)

\* the fetch of cacheFavicon resolves with response.ok
FaviconFetched(c, f) ==
    /\ phase = "serving"
    /\ cycles[c].proc[f].pc = "favicon"
    /\ WriteAsset(faviconFilename(f))
    /\ SetProc(c, f, NextEntry([cycles[c].proc[f] EXCEPT !.icon = Local(faviconFilename(f))]))
    /\ UNCHANGED <<phase, cli, cachedFeeds, isRefreshing, autoRefreshTimer, file,
                   now, answer, sinceClear, client, ALLOWED_IPS>>

\* the fetch of cacheFavicon fails, times out or is not ok: return null
FaviconFailed(c, f) ==
    /\ phase = "serving"
    /\ cycles[c].proc[f].pc = "favicon"
    /\ SetProc(c, f, NextEntry([cycles[c].proc[f] EXCEPT !.icon = Null]))
    /\ UNCHANGED <<phase, cli, cachedFeeds, isRefreshing, autoRefreshTimer, file,
                   imagesDir, now, answer, sinceClear, client, ALLOWED_IPS>>

\* if (bestImage.startsWith('/')) bestImage = baseUrl + bestImage, where the
\* link of the entry is a URL
ResolveImage(bestImage) ==
    IF bestImage[1] = "rooted" THEN Remote(AtOrigin(bestImage[2])) ELSE bestImage

\* extractArticleContent settles (it never rejects); the best image is
\* chosen, resolved and looked up in the cache. rawItem.image is not read
\* again, so the entry keeps the best image in its place.
ExtractWith(c, f, article) ==
    /\ phase = "serving"
    /\ cycles[c].proc[f].pc = "extract"
    /\ LET p == cycles[c].proc[f]
           articleContent == extractArticleContent(article)
           bestImage == ResolveImage(OrElse(articleContent.image, Head(p.raw).image))
           q == [p EXCEPT !.best = bestImage, !.raw[1].image = bestImage,
                          !.fullText = FullTextOf(articleContent.fullText, Head(p.raw)),
                          !.author = articleContent.author]
       IN  IF Truthy(bestImage)
             THEN IF Truthy(CachedRef(urlToFilename(bestImage)))
                    THEN SetProc(c, f, PushItem(q, f, CachedRef(urlToFilename(bestImage))))
                    ELSE SetProc(c, f, [q EXCEPT !.pc = "image"])
             ELSE SetProc(c, f, PushItem(q, f, Null))
    /\ UNCHANGED <<phase, cli, cachedFeeds, isRefreshing, autoRefreshTimer, file,
                   imagesDir, now, answer, sinceClear, client, ALLOWED_IPS>>

ExtractDoneOf(c, f, articles) == \E article \in articles : ExtractWith(c, f, article)

ExtractDone(c, f) == ExtractDoneOf(c, f, Articles)

\* the fetch of cacheImage resolves with response.ok; fetch rejects at once
\* when it is given something that is not an absolute URL
ImageFetched(c, f) ==
    /\ phase = "serving"
    /\ cycles[c].proc[f].pc = "image"
    /\ cycles[c].proc[f].best[1] = "remote"
    /\ WriteAsset(urlToFilename(cycles[c].proc[f].best))
    /\ SetProc(c, f, PushItem(cycles[c].proc[f], f,
                              Local(urlToFilename(cycles[c].proc[f].best))))
    /\ UNCHANGED <<phase, cli, cachedFeeds, isRefreshing, autoRefreshTimer, file,
                   now, answer, sinceClear, client, ALLOWED_IPS>>

\* the body of a response that is not ok written before null is returned
ImageFailedWritten(c, f) ==
    /\ phase = "serving"
    /\ cycles[c].proc[f].pc = "image"
    /\ WriteAsset(urlToFilename(cycles[c].proc[f].best))
    /\ SetProc(c, f, PushItem(cycles[c].proc[f], f, Null))
    /\ UNCHANGED <<phase, cli, cachedFeeds, isRefreshing, autoRefreshTimer, file,
                   now, answer, sinceClear, client, ALLOWED_IPS>>

\* the fetch of cacheImage fails, times out or is not ok: return null
ImageFailed(c, f) ==
    /\ phase = "serving"
    /\ cycles[c].proc[f].pc = "image"
    /\ SetProc(c, f, PushItem(cycles[c].proc[f], f, Null))
    /\ UNCHANGED <<phase, cli, cachedFeeds, isRefreshing, autoRefreshTimer, file,
                   imagesDir, now, answer, sinceClear, client, ALLOWED_IPS>>

---------------------------------------------------------------------------
(* The tail of fetchAllFeeds, after await Promise.all *)

RemoveAt(s, c) == SubSeq(s, 1, c - 1) \o SubSeq(s, c + 1, Len(s))

\* the save placed before the publication: it writes the previous snapshot
SavedFileStale(snapshot) == FileWith(JSONstringify(cachedFeeds))

\* fs.writeFileSync(FEED_CACHE_FILE, JSON.stringify(cachedFeeds, null, 2))
SavedFile(snapshot) == FileWith(JSONstringify(snapshot))

\* a join that resumes as soon as one processor has returned
AnySettled(c) == \E f \in Feeds : cycles[c].proc[f].pc = "done"

\* await Promise.all(feedConfig.feeds.map(feed => processFeed(feed)))
AllSettled(c) == \A f \in Feeds : cycles[c].proc[f].pc = "done"

\* publication, and what does not depend on the outcome of the save
Publish(c) ==
    /\ phase = "serving"
    /\ AllSettled(c)
    /\ cachedFeeds' = BuildSnapshot(cycles[c].proc)
    /\ isRefreshing' = FALSE
    /\ cycles' = RemoveAt(cycles, c)
    /\ cli' = IF cycles[c].thenCLI THEN TRUE ELSE cli
    /\ UNCHANGED <<phase, autoRefreshTimer, imagesDir, now, answer, sinceClear, client, ALLOWED_IPS>>

FinishSaved(c) ==
    /\ Publish(c)
    /\ file' = SavedFile(cachedFeeds')

\* writeFileSync outside a try block: the throw ends fetchAllFeeds before
\* the flag is cleared
FinishSaveThrows(c) ==
    /\ phase = "serving"
    /\ AllSettled(c)
    /\ cachedFeeds' = BuildSnapshot(cycles[c].proc)
    /\ cycles' = RemoveAt(cycles, c)
    /\ cli' = IF cycles[c].thenCLI THEN TRUE ELSE cli
    /\ file' \in {file, FileWith(<<"garbage">>)}
    /\ UNCHANGED <<phase, isRefreshing, autoRefreshTimer, imagesDir, now, answer,
                   sinceClear, client, ALLOWED_IPS>>

\* the save placed before the assignment to cachedFeeds: its throw leaves
\* the previous snapshot published
FinishSaveFailedUnpublished(c) ==
    /\ phase = "serving"
    /\ AllSettled(c)
    /\ isRefreshing' = FALSE
    /\ cycles' = RemoveAt(cycles, c)
    /\ cli' = IF cycles[c].thenCLI THEN TRUE ELSE cli
    /\ file' \in {file, FileWith(<<"garbage">>)}
    /\ UNCHANGED <<phase, cachedFeeds, autoRefreshTimer, imagesDir, now, answer,
                   sinceClear, client, ALLOWED_IPS>>

\* writeFileSync throws: the file is as it was, or cut short
FinishSaveFailed(c) ==
    /\ Publish(c)
    /\ file' \in {file, FileWith(<<"garbage">>)}

---------------------------------------------------------------------------

Next ==
    \/ Listen
    \/ GetFeeds
    \/ GetStatus
    \/ PostRefresh
    \/ DeleteCache
    \/ CliRefresh
    \/ CliClear
    \/ CliToggleAuto
    \/ TimerTick
    \/ \E c \in DOMAIN cycles : \E f \in Feeds :
         \/ ParseFailed(c, f)
         \/ ParseDone(c, f)
         \/ FaviconFetched(c, f)
         \/ FaviconFailed(c, f)
         \/ ExtractDone(c, f)
         \/ ImageFetched(c, f)
         \/ ImageFailed(c, f)
    \/ \E c \in DOMAIN cycles : FinishSaved(c) \/ FinishSaveFailed(c)

Spec == Init /\ [][Next]_vars

\* Every network operation of a cycle is settled in the end (it resolves,
\* rejects or reaches its timeout) and the event loop then runs the
\* continuation that waits for it; the tail runs once Promise.all resolves.
Progress ==
    \/ \E c \in DOMAIN cycles : \E f \in Feeds :
         \/ ParseFailed(c, f)
         \/ ParseDone(c, f)
         \/ FaviconFetched(c, f)
         \/ FaviconFailed(c, f)
         \/ ExtractDone(c, f)
         \/ ImageFetched(c, f)
         \/ ImageFailed(c, f)
    \/ \E c \in DOMAIN cycles : FinishSaved(c) \/ FinishSaveFailed(c)

SpecLive == Init /\ [][Next]_vars /\ WF_vars(Progress)

---------------------------------------------------------------------------
(* The image cache under a sequential caller: cacheImage / cacheFavicon    *)
(* called again only after the previous call has returned.                 *)

InitCache ==
    /\ phase = "serving"
    /\ cli = TRUE
    /\ cachedFeeds = EmptySnapshot
    /\ isRefreshing = FALSE
    /\ autoRefreshTimer = FALSE
    /\ file = Absent
    /\ imagesDir \in SUBSET ClientAssets
    /\ cycles = <<>>
    /\ now = StartTime
    /\ answer = "none"
    /\ sinceClear = FALSE
    /\ client = [ClientOff EXCEPT !.pc = "idle"]
    /\ ALLOWED_IPS = DefaultAllowed

Returned(a, ref, requested) ==
    [client EXCEPT !.pc = "idle", !.fn = <<"none", "none">>,
                   !.log[a] = Append(@, [ret |-> ref, req |-> requested])]

\* the call up to its first await: the cached reference, or the request
ClientCall(a) ==
    /\ client.pc = "idle"
    /\ Len(client.log[a]) < MaxCalls
    /\ IF Truthy(CachedRef(a))
         THEN client' = Returned(a, CachedRef(a), FALSE)
         ELSE client' = [client EXCEPT !.pc = "fetch", !.fn = a]
    /\ UNCHANGED <<phase, cli, cachedFeeds, isRefreshing, autoRefreshTimer, file,
                   imagesDir, cycles, now, answer, sinceClear, ALLOWED_IPS>>

\* response.ok: the asset is written and its reference returned
ClientFetched ==
    /\ client.pc = "fetch"
    /\ WriteAsset(client.fn)
    /\ client' = Returned(client.fn, Local(client.fn), TRUE)
    /\ UNCHANGED <<phase, cli, cachedFeeds, isRefreshing, autoRefreshTimer, file,
                   cycles, now, answer, sinceClear, ALLOWED_IPS>>

\* network error, timeout or a response that is not ok: null
ClientFailed ==
    /\ client.pc = "fetch"
    /\ client' = Returned(client.fn, Null, TRUE)
    /\ UNCHANGED <<phase, cli, cachedFeeds, isRefreshing, autoRefreshTimer, file,
                   imagesDir, cycles, now, answer, sinceClear, ALLOWED_IPS>>

\* a clear between two calls starts the count of calls again
ClientClear ==
    /\ client.pc = "idle"
    /\ ClearSucceeds
    /\ client' = [ClientOff EXCEPT !.pc = "idle"]
    /\ UNCHANGED <<phase, cli, isRefreshing, autoRefreshTimer, cycles, now, answer, ALLOWED_IPS>>

NextCache ==
    \/ \E a \in ClientAssets : ClientCall(a)
    \/ ClientFetched
    \/ ClientFailed
    \/ ClientClear

SpecCache == InitCache /\ [][NextCache]_vars

---------------------------------------------------------------------------
(* The routes behind the access gate, for every allow list: requests from  *)
(* any address arrive at a process that is serving.                        *)

InitGate ==
    /\ phase = "serving"
    /\ cli = TRUE
    /\ \E t \in {NullTime, StartTime - FETCH_INTERVAL} :
         /\ cachedFeeds = (IF t = NullTime THEN EmptySnapshot ELSE StoredSnapshot(t))
         /\ file = (IF t = NullTime THEN Absent
                    ELSE FileWith(JSONstringify(StoredSnapshot(t))))
    /\ isRefreshing = FALSE
    /\ autoRefreshTimer = FALSE
    /\ imagesDir \in {{}, {faviconFilename(FeedOrder[1])}}
    /\ cycles = <<>>
    /\ now = StartTime
    /\ answer = "none"
    /\ sinceClear = FALSE
    /\ client = ClientOff
    /\ ALLOWED_IPS \in AllowLists

NextGate == \E req \in Requests : Request(req)

SpecGate == InitGate /\ [][NextGate]_vars

---------------------------------------------------------------------------
(* Properties *)

\* --------------------------------------------------------------------------
\* One refresh cycle over long feeds: the first source returns up to
\* MaxEntries entries with dates of ItemDates or no readable date, the others
\* up to one
\* --------------------------------------------------------------------------

MaxEntries == 6
ItemDates == {1, 2}

\* the server right after the synchronous head of a cycle asked for by the CLI
InitCycle ==
    /\ phase = "serving"
    /\ cli = TRUE
    /\ cachedFeeds = EmptySnapshot
    /\ isRefreshing = TRUE
    /\ autoRefreshTimer = FALSE
    /\ file = Absent
    /\ imagesDir = {}
    /\ cycles = <<Cycle("cli")>>
    /\ now = StartTime + 1
    /\ answer = "started"
    /\ sinceClear = FALSE
    /\ client = ClientOff
    /\ ALLOWED_IPS = DefaultAllowed

\* what an entry carries as its date: a date, or text that is not one
Published == {DateString(d) : d \in ItemDates} \cup {InvalidDate}

PlainEntry(link, published) == Entry(link, Null, published, NoDate, Html(0, 1))

LongReads ==
    UNION {{[i \in 1..n |-> PlainEntry(i, dates[i])] : dates \in [1..n -> Published]} :
             n \in 0..MaxEntries}

ShortReads == {<<>>} \cup {<<PlainEntry(1, DateString(d))>> : d \in ItemDates}

ItemReads(f) == IF f = FeedOrder[1] THEN LongReads ELSE ShortReads

NextItems ==
    \/ \E c \in DOMAIN cycles : \E f \in Feeds :
         \/ ParseFailed(c, f)
         \/ ParseDoneOf(c, f, ItemReads(f))
         \/ FaviconFetched(c, f)
         \/ FaviconFailed(c, f)
         \/ ExtractDoneOf(c, f, {NoArticle})
    \/ \E c \in DOMAIN cycles : FinishSaved(c) \/ FinishSaveFailed(c)

SpecItems == InitCycle /\ [][NextItems]_vars

\* --------------------------------------------------------------------------
\* One refresh cycle over one entry in all its forms: the first source
\* returns one entry with any date and description, with or without an
\* image, and its article is extracted with any content
\* --------------------------------------------------------------------------

\* descriptions of feed entries: none, empty, at and beyond the limits
Descriptions ==
    {NullText, Html(0, 0), Html(2, DescriptionLimit), Html(2, DescriptionLimit + 1),
     Html(0, ContentLimit + 1)}

\* the image that the reader or the extractor found: none, an absolute URL,
\* or a URL relative to the article
ImageRefs ==
    {Null} \cup {Remote(u) : u \in Urls}
           \cup {Rooted(q) : q \in ImagePaths} \cup {Relative(q) : q \in ImagePaths}

RichEntries ==
    {Entry(1, image, published, updated, description) :
        image \in ImageRefs,
        published \in Published \cup {NoDate},
        updated \in {NoDate, DateString(2)},
        description \in Descriptions}

EntryReads(f) == IF f = FeedOrder[1] THEN {<<e>> : e \in RichEntries} ELSE ShortReads

\* articles: none, or content that is empty, at the limit or beyond it, with
\* or without a description of the article
RichArticles ==
    {NoArticle} \cup
    {[Article(content, description, Null) EXCEPT !.author = author] :
        content \in {Html(4, 0), Html(1, ContentLimit), Html(1, ContentLimit + 1)},
        description \in {NullText, Html(3, ContentLimit + 1)},
        author \in {Null, Author}} \cup
    {Article(Html(0, 1), NullText, image) : image \in ImageRefs}

NextEntries ==
    \/ \E c \in DOMAIN cycles : \E f \in Feeds :
         \/ ParseFailed(c, f)
         \/ ParseDoneOf(c, f, EntryReads(f))
         \/ FaviconFetched(c, f)
         \/ FaviconFailed(c, f)
         \/ ExtractDoneOf(c, f, RichArticles)
         \/ ImageFetched(c, f)
         \/ ImageFailed(c, f)
    \/ \E c \in DOMAIN cycles : FinishSaved(c) \/ FinishSaveFailed(c)

SpecEntry == InitCycle /\ [][NextEntries]_vars

\* --------------------------------------------------------------------------
\* cacheFavicon for two sources of a configuration, the second one later in
\* feedConfig.feeds than the first; their names are spelt out in characters
\* and their icon URLs end in an extension or in none
\* --------------------------------------------------------------------------

NameChars == {"a", "A", "-", " "}
\* the characters that /[a-z0-9]/i matches
AlphaNumeric == {"a", "A"}
toLowerCase(ch) == IF ch = "A" THEN "a" ELSE ch

\* the name as it is, unsanitised but for the case
safeNameKeepPunctuation(feedName) == [i \in DOMAIN feedName |-> toLowerCase(feedName[i])]

\* feedName.replace(/[^a-z0-9]/gi, '-').toLowerCase()
safeName(feedName) ==
    [i \in DOMAIN feedName |->
        toLowerCase(IF feedName[i] \in AlphaNumeric THEN feedName[i] ELSE "-")]

\* path.extname(new URL(iconUrl).pathname) || '.ico'
IconExt(ext) == IF ext = "" THEN ".ico" ELSE ext

\* `favicon-${safeName}${ext}` of a source
IconFile(src) == <<"favicon", <<safeName(src.name), IconExt(src.ext)>>>>

IconSources == [name : [1..2 -> NameChars], ext : {"", ".ico", ".png"}]

\* client.stored: which source's icon each file of the directory holds
InitIcons ==
    /\ phase = "serving"
    /\ cli = TRUE
    /\ cachedFeeds = EmptySnapshot
    /\ isRefreshing = TRUE
    /\ autoRefreshTimer = FALSE
    /\ file = Absent
    /\ imagesDir = {}
    /\ cycles = <<>>
    /\ now = StartTime + 1
    /\ answer = "started"
    /\ sinceClear = FALSE
    /\ \E s1, s2 \in IconSources :
          client = [src |-> <<s1, s2>>, pc |-> <<"idle", "idle">>,
                    ret |-> <<Null, Null>>, req |-> <<FALSE, FALSE>>, stored |-> {}]
    /\ ALLOWED_IPS = DefaultAllowed

IconUnchanged ==
    UNCHANGED <<phase, cli, cachedFeeds, isRefreshing, autoRefreshTimer, file,
                cycles, now, answer, sinceClear, ALLOWED_IPS>>

\* cacheFavicon(feed.icon, feed.name) up to its first await
IconCall(i) ==
    /\ client.pc[i] = "idle"
    /\ IF Truthy(CachedRef(IconFile(client.src[i])))
         THEN client' = [client EXCEPT !.pc[i] = "done",
                                       !.ret[i] = CachedRef(IconFile(client.src[i]))]
         ELSE client' = [client EXCEPT !.pc[i] = "fetch", !.req[i] = TRUE]
    /\ UNCHANGED imagesDir
    /\ IconUnchanged

\* response.ok: fs.writeFileSync(filepath, buffer) replaces what the file held
IconWritten(i) ==
    /\ client.pc[i] = "fetch"
    /\ WriteAsset(IconFile(client.src[i]))
    /\ client' = [client EXCEPT
                     !.pc[i] = "done",
                     !.ret[i] = Local(IconFile(client.src[i])),
                     !.stored = {e \in @ : e[1] # IconFile(client.src[i])}
                                   \cup {<<IconFile(client.src[i]), i>>}]
    /\ IconUnchanged

\* network error, timeout or a response that is not ok: null
IconMissed(i) ==
    /\ client.pc[i] = "fetch"
    /\ client' = [client EXCEPT !.pc[i] = "done"]
    /\ UNCHANGED imagesDir
    /\ IconUnchanged

NextIcons == \E i \in 1..2 : IconCall(i) \/ IconWritten(i) \/ IconMissed(i)

SpecIcons == InitIcons /\ [][NextIcons]_vars

\* --------------------------------------------------------------------------
\* The image that parseFeed takes out of one entry. A description or a
\* content field is the sequence of its img and meta tags; a tag has the
\* value of its src or content attribute ('' when it has none), the value of
\* its class, property or name attribute, and the order of the two.
\* --------------------------------------------------------------------------

TagUrls == {"", "a.jpg", "b"}

ImgTag(url, class, classFirst) ==
    [tag |-> "img", url |-> url, mark |-> class, markFirst |-> classFirst]
MetaTag(url, property, propertyFirst) ==
    [tag |-> "meta", url |-> url, mark |-> property, markFirst |-> propertyFirst]

ImgTags == {ImgTag(u, c, o) : u \in TagUrls, c \in {"", "wp-post-image"}, o \in BOOLEAN}
MetaTags ==
    {MetaTag(u, m, o) : u \in TagUrls, m \in {"og:image", "twitter:image", "other"},
                        o \in BOOLEAN}

\* match[1] of a successful match
Captured(url) == <<"src", url>>

\* /<img[^>]+src=["']([^"']+)["']/i
StandardImg(t) == t.tag = "img" /\ t.url # ""
\* /<meta[^>]+property=["']og:image["'][^>]+content=["']([^"']+)["']/i
OgImage(t) == t.tag = "meta" /\ t.mark = "og:image" /\ t.markFirst /\ t.url # ""
\* /<meta[^>]+name=["']twitter:image["'][^>]+content=["']([^"']+)["']/i
TwitterImage(t) == t.tag = "meta" /\ t.mark = "twitter:image" /\ t.markFirst /\ t.url # ""
\* /<img[^>]+class=["'][^"']*wp-post-image[^"']*["'][^>]+src=["']([^"']+)["']/i
WpPostImage(t) == t.tag = "img" /\ t.mark = "wp-post-image" /\ t.markFirst /\ t.url # ""
\* /<img[^>]+src=["']([^"']*\.(jpg|jpeg|png|gif|webp))["']/i
ImageExtension(t) == t.tag = "img" /\ t.url = "a.jpg"

\* pattern.test(tag), the patterns by their names
PatternTest(pattern, t) ==
    CASE pattern = "StandardImg" -> StandardImg(t)
      [] pattern = "OgImage" -> OgImage(t)
      [] pattern = "TwitterImage" -> TwitterImage(t)
      [] pattern = "WpPostImage" -> WpPostImage(t)
      [] pattern = "ImageExtension" -> ImageExtension(t)

\* text.match(pattern): the capture of the first tag the pattern matches
RECURSIVE match(_, _, _)
match(text, pattern, i) ==
    IF i > Len(text) THEN Null
    ELSE IF PatternTest(pattern, text[i]) THEN Captured(text[i].url)
    ELSE match(text, pattern, i + 1)

\* the chain with the first two patterns in the other order
DescriptionImageMetaFirst(description) ==
    IF description = <<>> THEN Null
    ELSE IF match(description, "OgImage", 1) # Null THEN match(description, "OgImage", 1)
    ELSE IF match(description, "StandardImg", 1) # Null
        THEN match(description, "StandardImg", 1)
    ELSE IF match(description, "TwitterImage", 1) # Null
        THEN match(description, "TwitterImage", 1)
    ELSE IF match(description, "WpPostImage", 1) # Null
        THEN match(description, "WpPostImage", 1)
    ELSE match(description, "ImageExtension", 1)

\* if (entry.description) { pattern 1 else 2 else 3 else 4 else 5 }
DescriptionImage(description) ==
    IF description = <<>> THEN Null
    ELSE IF match(description, "StandardImg", 1) # Null
        THEN match(description, "StandardImg", 1)
    ELSE IF match(description, "OgImage", 1) # Null THEN match(description, "OgImage", 1)
    ELSE IF match(description, "TwitterImage", 1) # Null
        THEN match(description, "TwitterImage", 1)
    ELSE IF match(description, "WpPostImage", 1) # Null
        THEN match(description, "WpPostImage", 1)
    ELSE match(description, "ImageExtension", 1)

\* the image of the object that the callback of feed.entries.map returns
EntryImage(description, content) ==
    IF DescriptionImage(description) = Null /\ content # <<>>
        THEN match(content, "StandardImg", 1)
        ELSE DescriptionImage(description)

\* the texts of entries: up to two tags in the description, up to one in the
\* content field
TagTexts(n) == UNION {[1..k -> ImgTags \cup MetaTags] : k \in 0..n}

InitImage ==
    /\ phase = "serving"
    /\ cli = TRUE
    /\ cachedFeeds = EmptySnapshot
    /\ isRefreshing = TRUE
    /\ autoRefreshTimer = FALSE
    /\ file = Absent
    /\ imagesDir = {}
    /\ cycles = <<>>
    /\ now = StartTime + 1
    /\ answer = "started"
    /\ sinceClear = FALSE
    /\ \E description \in TagTexts(2), content \in TagTexts(1) :
          client = [description |-> description, content |-> content,
                    pc |-> "entry", image |-> Null]
    /\ ALLOWED_IPS = DefaultAllowed

\* feed.entries.map(entry => ...) on one entry
MapEntry ==
    /\ client.pc = "entry"
    /\ client' = [client EXCEPT !.pc = "mapped",
                                 !.image = EntryImage(client.description, client.content)]
    /\ UNCHANGED imagesDir
    /\ IconUnchanged

NextImage == MapEntry

SpecImage == InitImage /\ [][NextImage]_vars

\* --------------------------------------------------------------------------
\* The text that extractArticleContent makes of article.content. The content
\* is a sequence of pieces: tags, runs of n characters that are neither
\* white space nor markup ("w"), single spaces and single line breaks. The
\* text made of it is a sequence of such runs, and of the marker.
\* --------------------------------------------------------------------------

Piece(ch, n) == [ch |-> ch, n |-> n]

\* the number of characters of a text
RECURSIVE TextLength(_)
TextLength(text) == IF text = <<>> THEN 0 ELSE Head(text).n + TextLength(Tail(text))

\* the elements of text at the positions kept, in their order
RECURSIVE Filter(_, _, _)
Filter(text, kept, i) ==
    IF i > Len(text) THEN <<>>
    ELSE (IF i \in kept THEN <<text[i]>> ELSE <<>>) \o Filter(text, kept, i + 1)

\* the five replacements of paragraph, line-break and division tags, and
\* .replace(/<[^>]+>/g, ' ') of every other tag
RECURSIVE replaceTags(_)
replaceTags(content) ==
    IF content = <<>> THEN <<>>
    ELSE (CASE Head(content).ch = "</p>" -> <<Piece("\n", 1), Piece("\n", 1)>>
            [] Head(content).ch = "<p>" -> <<>>
            [] Head(content).ch = "<br>" -> <<Piece("\n", 1)>>
            [] Head(content).ch = "</div>" -> <<Piece("\n", 1)>>
            [] Head(content).ch = "<div>" -> <<>>
            [] Head(content).ch = "<b>" -> <<Piece(" ", 1)>>
            [] OTHER -> <<Head(content)>>) \o replaceTags(Tail(content))

\* .replace(/[ \t]+/g, ' ').replace(/\n[ \t]+/g, '\n').replace(/[ \t]+\n/g, '\n')
\* .replace(/\n{3,}/g, '\n\n').trim()
collapseWhitespace(text) ==
    LET spaces == Filter(text, {i \in DOMAIN text :
                        ~(text[i].ch = " " /\ i > 1 /\ text[i - 1].ch = " ")}, 1)
        after == Filter(spaces, {i \in DOMAIN spaces :
                        ~(spaces[i].ch = " " /\ i > 1 /\ spaces[i - 1].ch = "\n")}, 1)
        before == Filter(after, {i \in DOMAIN after :
                        ~(after[i].ch = " " /\ i < Len(after) /\ after[i + 1].ch = "\n")}, 1)
        breaks == Filter(before, {i \in DOMAIN before :
                        ~(/\ before[i].ch = "\n" /\ i > 2
                          /\ before[i - 1].ch = "\n" /\ before[i - 2].ch = "\n")}, 1)
        words == {i \in DOMAIN breaks : breaks[i].ch = "w"}
    IN  Filter(breaks, {i \in DOMAIN breaks :
                            \E j, k \in words : j <= i /\ i <= k}, 1)

\* content.substring(0, n)
RECURSIVE textSubstring(_, _)
textSubstring(text, n) ==
    IF text = <<>> \/ n = 0 THEN <<>>
    ELSE IF Head(text).n >= n THEN <<Piece(Head(text).ch, n)>>
    ELSE <<Head(text)>> \o textSubstring(Tail(text), n - Head(text).n)

\* the marker after every text that has the limit's length or more
truncateFromLimit(content) ==
    IF TextLength(content) >= ContentLimit
        THEN textSubstring(content, ContentLimit) \o <<Piece(".", EllipsisLength)>>
        ELSE content

\* if (content.length > 2000) content = content.substring(0, 2000) + '...'
truncate(content) ==
    IF TextLength(content) > ContentLimit
        THEN textSubstring(content, ContentLimit) \o <<Piece(".", EllipsisLength)>>
        ELSE content

\* the pieces that article contents are made of, and the contents: up to
\* four pieces
Pieces ==
    {Piece(tag, 0) : tag \in {"</p>", "<p>", "<br>", "</div>", "<div>", "<b>"}}
        \cup {Piece(" ", 1), Piece("\n", 1)}
        \cup {Piece("w", n) : n \in {1, ContentLimit - 2, ContentLimit,
                                      ContentLimit + ContentLimit + 1000}}
Contents == UNION {[1..k -> Pieces] : k \in 0..4}

InitText ==
    /\ phase = "serving"
    /\ cli = TRUE
    /\ cachedFeeds = EmptySnapshot
    /\ isRefreshing = TRUE
    /\ autoRefreshTimer = FALSE
    /\ file = Absent
    /\ imagesDir = {}
    /\ cycles = <<>>
    /\ now = StartTime + 1
    /\ answer = "started"
    /\ sinceClear = FALSE
    /\ \E content \in Contents :
          client = [content |-> content, pc |-> "extracted", fullText |-> <<>>]
    /\ ALLOWED_IPS = DefaultAllowed

\* extractArticleContent from the article's arrival to its return, for an
\* article without a description: content || article.description || null
ExtractText ==
    /\ client.pc = "extracted"
    /\ client' = [client EXCEPT
                     !.pc = "returned",
                     !.fullText = truncate(collapseWhitespace(replaceTags(client.content)))]
    /\ UNCHANGED imagesDir
    /\ IconUnchanged

SpecText == InitText /\ [][ExtractText]_vars

\* --------------------------------------------------------------------------
\* Two cycles in a row: the first one is running, with the clock one tick
\* earlier than in InitCycle so that the bound on cycles admits another one
\* after it; refresh triggers arrive at any time
\* --------------------------------------------------------------------------

InitFirstCycle ==
    /\ phase = "serving"
    /\ cli = TRUE
    /\ cachedFeeds = EmptySnapshot
    /\ isRefreshing = TRUE
    /\ autoRefreshTimer = FALSE
    /\ file = Absent
    /\ imagesDir = {}
    /\ cycles = <<Cycle("cli")>>
    /\ now = StartTime
    /\ answer = "started"
    /\ sinceClear = FALSE
    /\ client = ClientOff
    /\ ALLOWED_IPS = DefaultAllowed

NextCycles ==
    \/ PostRefresh
    \/ CliRefresh
    \/ CliToggleAuto
    \/ TimerTick
    \/ \E c \in DOMAIN cycles : \E f \in Feeds :
         \/ ParseFailed(c, f)
         \/ ParseDone(c, f)
         \/ FaviconFetched(c, f)
         \/ FaviconFailed(c, f)
         \/ ExtractDone(c, f)
         \/ ImageFetched(c, f)
         \/ ImageFailed(c, f)
    \/ \E c \in DOMAIN cycles : FinishSaved(c) \/ FinishSaveFailed(c)

SpecCycles == InitFirstCycle /\ [][NextCycles]_vars

\* --------------------------------------------------------------------------
\* The periodic timer by its handles. client.timer is the value of the
\* variable autoRefreshTimer (NoTimer for null), client.live the intervals
\* that the event loop holds, client.made the number of intervals set so
\* far; the variable autoRefreshTimer of the model is the truthiness of
\* client.timer.
\* --------------------------------------------------------------------------

MaxToggles == 3
NoTimer == 0

\* an interval that is never cleared
clearIntervalNot(live, handle) == live

\* clearInterval(autoRefreshTimer)
clearInterval(live, handle) == live \ {handle}

InitTimer ==
    /\ phase = "serving"
    /\ cli = TRUE
    /\ cachedFeeds = EmptySnapshot
    /\ isRefreshing = FALSE
    /\ autoRefreshTimer = FALSE
    /\ file = Absent
    /\ imagesDir = {}
    /\ cycles = <<>>
    /\ now = StartTime - 1
    /\ answer = "none"
    /\ sinceClear = FALSE
    /\ client = [timer |-> NoTimer, live |-> {}, made |-> 0]
    /\ ALLOWED_IPS = DefaultAllowed

\* the command A of the keypress handler
CliToggleTimer ==
    /\ phase = "serving" /\ cli
    /\ IF client.timer # NoTimer
         THEN client' = [client EXCEPT !.live = clearInterval(@, client.timer),
                                       !.timer = NoTimer]
         ELSE /\ client.made < MaxToggles
              /\ client' = [client EXCEPT !.live = @ \cup {client.made + 1},
                                          !.timer = client.made + 1,
                                          !.made = @ + 1]
    /\ autoRefreshTimer' = (client'.timer # NoTimer)
    /\ UNCHANGED <<phase, cli, cachedFeeds, isRefreshing, file, imagesDir, cycles,
                   now, answer, sinceClear, ALLOWED_IPS>>

\* an interval of the event loop fires: fetchAllFeeds()
IntervalFires(handle) ==
    /\ phase = "serving"
    /\ handle \in client.live
    /\ fetchAllFeeds("timer")
    /\ UNCHANGED <<phase, cli, cachedFeeds, autoRefreshTimer, file, imagesDir, client,
                   ALLOWED_IPS>>

NextTimer ==
    \/ CliToggleTimer
    \/ \E handle \in 1..MaxToggles : IntervalFires(handle)
    \/ CliRefresh
    \/ \E c \in DOMAIN cycles : \E f \in Feeds : ParseFailed(c, f)
    \/ \E c \in DOMAIN cycles : FinishSaved(c)

SpecTimer == InitTimer /\ [][NextTimer]_vars

\* --------------------------------------------------------------------------
\* The keypress handler of startCLI. client.view is what the terminal shows,
\* client.waiting the number of once-listeners that the commands S and L
\* have left on stdin. A key press calls the listeners registered before it
\* in their order: the handler of startCLI first, then the waiting ones,
\* whose continuation displays the menu.
\* --------------------------------------------------------------------------

Keys == {"r", "s", "l", "c", "a", "q", "x", "ctrl-c"}

InitKeys ==
    /\ phase = "serving"
    /\ cli = TRUE
    /\ cachedFeeds = EmptySnapshot
    /\ isRefreshing = FALSE
    /\ autoRefreshTimer = FALSE
    /\ file = Absent
    /\ imagesDir = {}
    /\ cycles = <<>>
    /\ now = StartTime
    /\ answer = "none"
    /\ sinceClear = FALSE
    /\ client = [view |-> "menu", waiting |-> 0]
    /\ ALLOWED_IPS = DefaultAllowed

\* process.stdin emits keypress
KeyPress(key) ==
    /\ phase = "serving" /\ cli
    /\ client' =
         IF key \in {"q", "ctrl-c"} THEN client
         ELSE [view |-> IF client.waiting > 0 THEN "menu"
                        ELSE (CASE key = "s" -> "status"
                                [] key = "l" -> "log"
                                [] OTHER -> "menu"),
               waiting |-> IF key \in {"s", "l"} THEN 1 ELSE 0]
    /\ CASE key = "r" ->
               /\ fetchAllFeeds("cli")
               /\ UNCHANGED <<phase, cachedFeeds, autoRefreshTimer, file, imagesDir>>
         [] key = "c" ->
               /\ ClearSucceeds \/ ClearThrows
               /\ UNCHANGED <<phase, isRefreshing, autoRefreshTimer, cycles, now, answer>>
         [] key = "a" ->
               /\ autoRefreshTimer' = ~autoRefreshTimer
               /\ UNCHANGED <<phase, cachedFeeds, isRefreshing, file, imagesDir, cycles,
                              now, answer, sinceClear>>
         [] key \in {"q", "ctrl-c"} ->
               /\ phase' = "exited"
               /\ UNCHANGED <<cachedFeeds, isRefreshing, autoRefreshTimer, file, imagesDir,
                              cycles, now, answer, sinceClear>>
         [] OTHER ->
               UNCHANGED <<phase, cachedFeeds, isRefreshing, autoRefreshTimer, file,
                           imagesDir, cycles, now, answer, sinceClear>>
    /\ UNCHANGED <<cli, ALLOWED_IPS>>

\* what the processors and the tail of a cycle do leaves the terminal's
\* state alone
NextKeys ==
    \/ \E key \in Keys : KeyPress(key)
    \/ \E c \in DOMAIN cycles : \E f \in Feeds :
         \/ ParseFailed(c, f)
         \/ ParseDone(c, f)
         \/ FaviconFetched(c, f)
         \/ FaviconFailed(c, f)
         \/ ExtractDone(c, f)
         \/ ImageFetched(c, f)
         \/ ImageFailed(c, f)
    \/ \E c \in DOMAIN cycles : FinishSaved(c) \/ FinishSaveFailed(c)

SpecKeys == InitKeys /\ [][NextKeys]_vars

\* --------------------------------------------------------------------------
\* The hook useSpotlight of the dashboard with its initial settings:
\* auto-scroll on, auto-focus off, not paused. client.n is the number of
\* items rendered, client.index is spotlightIndexRef, client.scrollAnimation
\* is scrollAnimationRef, client.timers the pending timeouts whose callback
\* is spotlightNextItem, in the order of their delays, client.tween says
\* that a scroll started by scrollToElement has not completed, and
\* client.thrown that spotlightNextItem has ended in an exception.
\* --------------------------------------------------------------------------

MaxItems == 8

\* the state after the first render with items: the effect of the
\* auto-scroll toggle has set a timeout of 500 ms, the auto-start effect one
\* of 1000 ms
InitScroll ==
    /\ phase = "serving"
    /\ cli = TRUE
    /\ cachedFeeds = EmptySnapshot
    /\ isRefreshing = FALSE
    /\ autoRefreshTimer = FALSE
    /\ file = Absent
    /\ imagesDir = {}
    /\ cycles = <<>>
    /\ now = StartTime
    /\ answer = "none"
    /\ sinceClear = FALSE
    /\ \E n \in 1..MaxItems, continuousScroll \in BOOLEAN :
          client = [n |-> n, continuousScroll |-> continuousScroll, index |-> 0,
                    scrollAnimation |-> FALSE, isAutoScrolling |-> FALSE,
                    timers |-> <<"toggle", "auto-start">>, tween |-> FALSE,
                    thrown |-> FALSE]
    /\ ALLOWED_IPS = DefaultAllowed

\* the loop branch with the container bound before it is used
LoopBranchBound(c) ==
    [c EXCEPT !.timers = Tail(@), !.isAutoScrolling = TRUE, !.scrollAnimation = TRUE,
              !.index = 0, !.tween = TRUE]

\* the loop branch of spotlightNextItem: container.scrollTop = 0 reads the
\* const container of the enclosing block before its declaration, which
\* throws; the timeout that would start the scroll is never set
LoopBranch(c) ==
    [c EXCEPT !.timers = Tail(@), !.isAutoScrolling = TRUE, !.scrollAnimation = TRUE,
              !.index = 0, !.thrown = TRUE]

\* spotlightNextItem() with auto-scroll on and auto-focus off
spotlightNextItem(c) ==
    LET currentIndex == ((c.index % c.n) + c.n) % c.n
        nextIndex == (currentIndex + 1) % c.n
    IN  IF c.scrollAnimation THEN [c EXCEPT !.timers = Tail(@)]
        ELSE IF nextIndex = 0 /\ currentIndex = c.n - 1 THEN LoopBranch(c)
        ELSE [c EXCEPT !.timers = Tail(@), !.isAutoScrolling = TRUE,
                       !.scrollAnimation = TRUE, !.index = nextIndex, !.tween = TRUE]

\* the timeout that is due first fires
TimeoutFires ==
    /\ client.timers # <<>>
    /\ client' = spotlightNextItem(client)
    /\ UNCHANGED imagesDir
    /\ IconUnchanged

\* onComplete of scrollToElement, after a scroll of one second or two: the
\* timeouts of the first render have fired by then
ScrollCompletes ==
    /\ client.tween
    /\ client.timers = <<>>
    /\ client' = [client EXCEPT !.tween = FALSE, !.scrollAnimation = FALSE,
                                 !.timers = <<"spotlight">>]
    /\ UNCHANGED imagesDir
    /\ IconUnchanged

NextScroll == TimeoutFires \/ ScrollCompletes

\* a timeout that is set fires, a scroll that is started completes
SpecScroll == InitScroll /\ [][NextScroll]_vars /\ WF_vars(NextScroll)

\* --------------------------------------------------------------------------
\* The direct-fetch fallback of the dashboard: fetchRSSFeed for each feed of
\* the configuration, joined by Promise.all. client.feed[f] is the call for
\* feed f: outcomes lists its attempts so far, each Failed or Parsed(count)
\* with the number of items parsed; failedAt is the time of the last failure; value is what
\* the call resolved with. The clock now counts milliseconds here.
\* --------------------------------------------------------------------------

RETRY_DELAY == 2000
MAX_RETRIES == 1

\* what one attempt parses: no item, or some
ParsedCounts == {0, 3}
\* the outcomes of an attempt
Failed == <<"failed", 0>>
Parsed(count) == <<"items", count>>
\* the list of the items that attempt number from has parsed
ItemList(count, from) == [items |-> count, from |-> from]
\* []
NoItems == ItemList(0, 0)

\* a retry as long as the count has not passed the maximum
MayRetryOnceMore(retryCount) == retryCount <= MAX_RETRIES

\* if (retryCount < MAX_RETRIES)
MayRetry(retryCount) == retryCount < MAX_RETRIES

FetchStart == [pc |-> "fetch", retryCount |-> 0, outcomes |-> <<>>, failedAt |-> 0,
               value |-> NoItems]

InitFetch ==
    /\ phase = "serving"
    /\ cli = TRUE
    /\ cachedFeeds = EmptySnapshot
    /\ isRefreshing = FALSE
    /\ autoRefreshTimer = FALSE
    /\ file = Absent
    /\ imagesDir = {}
    /\ cycles = <<>>
    /\ now = 0
    /\ answer = "none"
    /\ sinceClear = FALSE
    /\ client = [feed |-> [f \in Feeds |-> FetchStart], load |-> "pending"]
    /\ ALLOWED_IPS = DefaultAllowed

FetchUnchanged ==
    UNCHANGED <<phase, cli, cachedFeeds, isRefreshing, autoRefreshTimer, file, imagesDir,
                cycles, answer, sinceClear, ALLOWED_IPS>>

\* time passes, half a delay at a time
Tick ==
    /\ now < RETRY_DELAY * (MAX_RETRIES + 2)
    /\ now' = now + RETRY_DELAY \div 2
    /\ UNCHANGED client
    /\ FetchUnchanged

\* the try block runs to its end: return items
AttemptSucceeds(f) ==
    /\ client.feed[f].pc = "fetch"
    /\ \E count \in ParsedCounts :
          client' = [client EXCEPT
                       !.feed[f].pc = "resolved",
                       !.feed[f].outcomes = Append(@, Parsed(count)),
                       !.feed[f].value = ItemList(count, Len(client.feed[f].outcomes) + 1)]
    /\ UNCHANGED now
    /\ FetchUnchanged

\* the fetch rejects or times out, the response is not ok or is no XML:
\* the catch block waits for the retry, or returns []
AttemptFails(f) ==
    /\ client.feed[f].pc = "fetch"
    /\ client' = [client EXCEPT
                     !.feed[f].outcomes = Append(@, Failed),
                     !.feed[f].failedAt = now,
                     !.feed[f].pc = IF MayRetry(client.feed[f].retryCount)
                                        THEN "wait" ELSE "resolved",
                     !.feed[f].value = NoItems]
    /\ UNCHANGED now
    /\ FetchUnchanged

\* the timeout of RETRY_DELAY fires: fetchRSSFeed(..., retryCount + 1)
RetryStarts(f) ==
    /\ client.feed[f].pc = "wait"
    /\ now >= client.feed[f].failedAt + RETRY_DELAY
    /\ client' = [client EXCEPT !.feed[f].pc = "fetch", !.feed[f].retryCount = @ + 1]
    /\ UNCHANGED now
    /\ FetchUnchanged

\* await Promise.all(feedPromises) resumes
LoadCompletes ==
    /\ client.load = "pending"
    /\ \A f \in Feeds : client.feed[f].pc = "resolved"
    /\ client' = [client EXCEPT !.load = "resolved"]
    /\ UNCHANGED now
    /\ FetchUnchanged

NextFetch ==
    \/ Tick
    \/ LoadCompletes
    \/ \E f \in Feeds : AttemptSucceeds(f) \/ AttemptFails(f) \/ RetryStarts(f)

SpecFetch == InitFetch /\ [][NextFetch]_vars


CycleRequest == PostRefresh \/ CliRefresh \/ TimerTick

\* C1: at most one cycle runs at any time; a cycle request that arrives
\* while a cycle is running launches no source processor, changes neither
\* the flag nor the snapshot, and is answered at once with 409 (POST) or
\* with the stale snapshot (timer, CLI).
C1_AtMostOneCycle ==
    /\ [](Len(cycles) <= 1)
    /\ [][(isRefreshing /\ CycleRequest)
            => /\ answer' \in {"409", "stale"}
               /\ UNCHANGED <<cycles, isRefreshing, cachedFeeds>>]_vars

\* a request was refused while the one cycle was running
C1_Witness ==
    /\ isRefreshing
    /\ Len(cycles) = 1
    /\ answer \in {"409", "stale"}

ItemsOf(v, f) == LET From(it) == it.source = f IN SelectSeq(v.items, From)

\* the four properties of v were written together: every timestamp and
\* every item carries the clock value of lastUpdated, and the statuses count
\* the items that are there
Coherent(v) ==
    /\ DOMAIN v.feedStatus = DOMAIN v.feedTimestamps
    /\ \A f \in DOMAIN v.feedTimestamps : v.feedTimestamps[f] = v.lastUpdated
    /\ \A i \in DOMAIN v.items :
         /\ v.items[i].id[2] = v.lastUpdated
         /\ v.items[i].source \in DOMAIN v.feedStatus
    /\ \A f \in DOMAIN v.feedStatus :
         v.feedStatus[f].itemCount = Len(ItemsOf(v, f))

\* C2: what GET /api/feeds and GET /api/status read is at every moment one
\* whole snapshot (items, statuses, timestamps and lastUpdated written
\* together), and while a cycle is running the published snapshot is not
\* touched by the cycle: it stays as it is until the one replacement at the
\* end (only a clear resets it in between).
C2_SnapshotAtomicity ==
    /\ [](Coherent(FeedsResponse))
    /\ [][(isRefreshing /\ isRefreshing')
            => cachedFeeds' \in {cachedFeeds, EmptySnapshot}]_vars

\* a read during a cycle: a complete earlier snapshot is published while
\* the running cycle has already built items of its own
C2_Witness ==
    /\ isRefreshing
    /\ Len(cachedFeeds.items) > 0
    /\ \E f \in Feeds : Len(cycles[1].proc[f].items) > 0

\* the snapshot holds all items of every source whose read succeeded, none
\* of a source whose read failed, and marks exactly the failed ones
Isolated(proc, v) ==
    \A f \in Feeds :
        IF proc[f].success
          THEN /\ ItemsOf(v, f) = proc[f].items
               /\ v.feedStatus[f].success
               /\ v.feedStatus[f].error = Null
          ELSE /\ ItemsOf(v, f) = <<>>
               /\ ~v.feedStatus[f].success
               /\ v.feedStatus[f].error # Null

\* C3: source isolation: whatever subset of the sources fails to be read,
\* the snapshot published by the cycle holds the complete items of the
\* other sources, no item of a failed one, and feedStatus marks exactly the
\* failed ones (success false, error not null).
C3_SourceIsolation ==
    [][\A c \in DOMAIN cycles :
          Publish(c) => Isolated(cycles[c].proc, cachedFeeds')]_vars

\* a published snapshot with one failed source and the items of another
C3_Witness ==
    /\ ~isRefreshing
    /\ DOMAIN cachedFeeds.feedStatus = Feeds
    /\ \E f, g \in Feeds :
         /\ ~cachedFeeds.feedStatus[f].success
         /\ cachedFeeds.feedStatus[g].success
         /\ Len(ItemsOf(cachedFeeds, g)) > 0

\* C4: POST /api/refresh during a cycle answers 409 and changes neither the
\* cycle nor the snapshot; when idle it answers at once with the cycle
\* already running, and the flag stays set for as long as the cycle is in
\* flight, so that a second POST before its end gets 409.
C4_RefreshConflict ==
    /\ [](Len(cycles) > 0 => isRefreshing)
    /\ [][PostRefresh
            => IF isRefreshing
                 THEN /\ answer' = "409"
                      /\ UNCHANGED <<cycles, isRefreshing, cachedFeeds>>
                 ELSE /\ answer' = "started"
                      /\ isRefreshing'
                      /\ Len(cycles') = 1]_vars

\* a POST was answered 409 while the cycle was in flight
C4_Witness ==
    /\ isRefreshing
    /\ Len(cycles) = 1
    /\ answer = "409"

\* C5 as claimed: a cycle never replaces a snapshot that holds items by one
\* that holds none.
C5_LastKnownGood ==
    [][\A c \in DOMAIN cycles :
          (Publish(c) /\ Len(cachedFeeds.items) > 0)
              => Len(cachedFeeds'.items) > 0]_vars

\* C5 as amended: the snapshot published by a cycle holds items exactly
\* when some source of that cycle returned an item; a cycle in which every
\* source fails publishes an empty item list, whatever was published before.
C5_PublishedItems ==
    [][\A c \in DOMAIN cycles :
          Publish(c) => (Len(cachedFeeds'.items) > 0
                            <=> \E f \in Feeds : Len(cycles[c].proc[f].items) > 0)]_vars

\* items are published and the running cycle has failed for every source
C5_Witness ==
    /\ Len(cachedFeeds.items) > 0
    /\ Len(cycles) = 1
    /\ \A f \in Feeds : cycles[1].proc[f].pc = "done" /\ ~cycles[1].proc[f].success

\* C6: after a successful clear and until a new cycle is triggered,
\* GET /api/status reports no image, no article and lastUpdated "Never",
\* GET /api/feeds returns the empty snapshot, the asset directory is empty
\* and the snapshot file is absent.
C6_ClearComplete ==
    sinceClear =>
        /\ StatusResponse.images = 0
        /\ StatusResponse.articles = 0
        /\ StatusResponse.lastUpdated = <<"Never">>
        /\ FeedsResponse = EmptySnapshot
        /\ imagesDir = {}
        /\ ~FileExists(file)

\* C7 as claimed: two successive calls for the same asset issue exactly one
\* request between them, and return the same reference.
C7_ExactlyOneDownload ==
    \A a \in ClientAssets :
        Len(client.log[a]) >= 2
            => /\ client.log[a][1].req /\ ~client.log[a][2].req
               /\ client.log[a][2].ret = client.log[a][1].ret

\* C7 as amended: when the first of two successive calls returns a local
\* reference, the second returns the same reference without a request, so
\* that the two calls download at most once; when the first call returns
\* null, nothing was cached and the second call issues a request again.
C7_IdempotentWhenCached ==
    \A a \in ClientAssets :
        Len(client.log[a]) >= 2
            => /\ IsLocal(client.log[a][1].ret)
                    => /\ client.log[a][2].ret = client.log[a][1].ret
                       /\ ~client.log[a][2].req
               /\ client.log[a][1].ret = Null => client.log[a][2].req

\* a first call that downloaded, then a second one served from the cache
C7_Witness ==
    \E a \in ClientAssets :
        /\ Len(client.log[a]) >= 2
        /\ client.log[a][1] = [ret |-> Local(a), req |-> TRUE]
        /\ client.log[a][2] = [ret |-> Local(a), req |-> FALSE]

\* C8: no image is downloaded and written while it is present, whichever
\* source processors ask for it (an asset leaves the directory only by a
\* clear, so that a second download without a clear in between is a
\* download of a present asset).
C8_DownloadAtMostOnce ==
    [][\A c \in DOMAIN cycles : \A f \in Feeds :
          ImageFetched(c, f) => ~existsSync(urlToFilename(cycles[c].proc[f].best))]_vars

\* C9: whatever the snapshot file holds, the listen callback gets past
\* loadCache and its trigger decision without an exception, with a snapshot
\* object in memory.
C9_LoadBestEffort ==
    phase # "boot" =>
        /\ phase = "serving"
        /\ ~cachedFeeds.isNull
        /\ cachedFeeds.fields = AllFields

\* loading the file now gives the published snapshot; no file, no snapshot
Mirror ==
    IF FileExists(file)
      THEN Parseable(file[2]) /\ JSONparse(file[2]) = cachedFeeds
      ELSE cachedFeeds = EmptySnapshot

\* C10: a cycle whose save succeeds leaves a file from which loadCache
\* reads back exactly the published snapshot; no step taken while the
\* system is idle breaks that; a clear that resets the snapshot leaves no
\* file and the empty snapshot.
C10_DurableMirror ==
    /\ [][\A c \in DOMAIN cycles : FinishSaved(c) => Mirror']_vars
    /\ [][(~isRefreshing /\ ~isRefreshing' /\ Mirror) => Mirror']_vars
    /\ [][((DeleteCache \/ CliClear) /\ cachedFeeds' # cachedFeeds)
            => ~FileExists(file') /\ cachedFeeds' = EmptySnapshot]_vars

\* idle after a cycle that published items and saved them
C10_Witness ==
    /\ ~isRefreshing
    /\ phase = "serving"
    /\ cachedFeeds.lastUpdated > StartTime
    /\ Len(cachedFeeds.items) > 0
    /\ FileExists(file)
    /\ Mirror

\* the cycle that the listen callback started is still running
StartupCycleRunning == \E c \in DOMAIN cycles : cycles[c].thenCLI

\* C11: while the cycle started at process start is running, no
\* GET /api/feeds and no GET /api/status is answered: the routes serve
\* requests only once that cycle has completed.
C11_StartupOrdering ==
    StartupCycleRunning => ~(ENABLED GetFeeds) /\ ~(ENABLED GetStatus)

ApiPaths == {FEEDS, STATUS, REFRESH, CACHE}

\* allowed has the form a.b.c.d/p with p a multiple of 8
IsCidr8(allowed) ==
    LET parts == split(allowed, "/") IN
    /\ Len(parts) = 2
    /\ IsDigits(parts[2]) /\ parseInt(parts[2]) % 8 = 0 /\ parseInt(parts[2]) <= 32
    /\ Len(split(parts[1], ".")) = 4
    /\ \A i \in 1..4 : IsDigits(split(parts[1], ".")[i])

IsV4(ip) ==
    /\ Len(split(ip, ".")) = 4
    /\ \A i \in 1..4 : IsDigits(split(ip, ".")[i])

\* ip lies in the range of the entry: its first p/8 octets are those of the
\* network, octet by octet
InRange(allowed, ip) ==
    LET parts == split(allowed, "/")
        network == split(parts[1], ".")
    IN  /\ IsV4(ip)
        /\ \A i \in 1..(parseInt(parts[2]) \div 8) :
             parseInt(split(ip, ".")[i]) = parseInt(network[i])

\* ip matches an entry of the allow list: '*', the exact address, a
\* loopback alias when one is listed, or a CIDR entry whose range holds it
Matches(ip) ==
    \E i \in DOMAIN ALLOWED_IPS :
        LET allowed == ALLOWED_IPS[i] IN
        \/ allowed = Star
        \/ allowed = ip
        \/ ip \in LoopbackAliases /\ allowed \in LoopbackAliases
        \/ IsCidr8(allowed) /\ InRange(allowed, ip)

\* C12: a request to an API route whose client address matches no entry of
\* the allow list is answered 403 and has no effect on the snapshot, the
\* cycle state or the cache; a request to /images/ is never blocked.
C12_AccessGate ==
    /\ [][\A req \in Requests :
            (Request(req) /\ req.path \in ApiPaths /\ ~Matches(getClientIp(req)))
                => /\ answer' = "403"
                   /\ UNCHANGED <<cachedFeeds, isRefreshing, cycles, file, imagesDir>>]_vars
    /\ [](\A req \in Requests :
            startsWith(req.path, <<"/", "images", "/">>) => ~Blocked(req))

\* C13: an allow list of one entry a.b.c.d/p, p a multiple of 8, admits an
\* address exactly when the first p/8 octets of the address are those of
\* the network.
C13_CidrMatching ==
    (Len(ALLOWED_IPS) = 1 /\ IsCidr8(ALLOWED_IPS[1]))
        => \A ip \in Addresses : isIpAllowed(ip) <=> InRange(ALLOWED_IPS[1], ip)

\* C14: a DELETE /api/cache that fails in the filesystem is answered 500,
\* leaves the published snapshot exactly as it was and the cycle state
\* unchanged, and the process goes on serving.
C14_ClearFailure ==
    [][(DeleteCache /\ answer' = "500")
          => /\ cachedFeeds' = cachedFeeds
             /\ UNCHANGED <<cycles, isRefreshing>>
             /\ phase' = "serving"]_vars

\* a clear failed after it had removed an asset, and the items are still
\* published
C14_Witness ==
    /\ answer = "500"
    /\ Len(cachedFeeds.items) > 0
    /\ \E it \in Range(cachedFeeds.items) :
         IsLocal(it.sourceIcon) /\ FileOf(it.sourceIcon) \notin imagesDir


\* --------------------------------------------------------------------------
\* C15 Sort order: in every snapshot published by a cycle the items are
\* ordered by pubDate descending across all sources, and items with equal
\* pubDate keep their pre-sort relative order: configured source order, then
\* entry order within the source.
\* --------------------------------------------------------------------------

\* the position of a source in feedConfig.feeds
SourceIndex(f) == CHOOSE i \in 1..NumFeeds : FeedOrder[i] = f

\* a comes before b in allItems before the sort
PreSortBefore(a, b) ==
    \/ SourceIndex(a.source) < SourceIndex(b.source)
    \/ a.source = b.source /\ a.link < b.link

C15_SortOrder ==
    \A i, j \in 1..Len(cachedFeeds.items) :
        i < j =>
          LET a == cachedFeeds.items[i]
              b == cachedFeeds.items[j]
          IN  \/ a.pubDate > b.pubDate
              \/ a.pubDate = b.pubDate /\ PreSortBefore(a, b)

\* a snapshot with a tie inside a source, a tie across sources, and a later
\* entry of the first source sorted before an earlier one
C15_Witness ==
    \E i, j, k, l \in 1..Len(cachedFeeds.items) :
        LET at(n) == cachedFeeds.items[n] IN
        /\ i < j /\ at(i).source = at(j).source /\ at(i).pubDate = at(j).pubDate
        /\ k < l /\ at(k).source # at(l).source /\ at(k).pubDate = at(l).pubDate
        /\ \E m, n \in 1..Len(cachedFeeds.items) :
              m < n /\ at(m).source = at(n).source /\ at(m).link > at(n).link


\* --------------------------------------------------------------------------
\* C16 Per-source bound: in every cycle each source contributes at most
\* maxItemsPerFeed items, taken from the first maxItemsPerFeed entries of
\* the feed in feed order; the entries beyond the maximum are discarded (they
\* are neither waiting in the cycle nor in any snapshot), so a snapshot never
\* holds more than maxItemsPerFeed times the number of sources items.
\* --------------------------------------------------------------------------

\* the items of one source in a sequence of items
RECURSIVE ItemsFrom(_, _)
ItemsFrom(f, its) ==
    IF its = <<>> THEN <<>>
    ELSE (IF Head(its).source = f THEN <<Head(its)>> ELSE <<>>) \o ItemsFrom(f, Tail(its))

\* links among the first maxItemsPerFeed of the feed
FirstEntries(its) ==
    \A i \in 1..Len(its) : its[i].link \in 1..maxItemsPerFeed

C16_PerSourceBound ==
    /\ \A c \in DOMAIN cycles : \A f \in Feeds :
          LET p == cycles[c].proc[f] IN
          /\ Len(p.items) + Len(p.raw) <= maxItemsPerFeed
          /\ FirstEntries(p.items) /\ FirstEntries(p.raw)
          /\ \A i, j \in 1..Len(p.items) : i < j => p.items[i].link < p.items[j].link
          /\ \A i \in 1..Len(p.raw) :
                /\ \A j \in 1..Len(p.items) : p.items[j].link < p.raw[i].link
                /\ \A j \in 1..Len(p.raw) : i < j => p.raw[i].link < p.raw[j].link
    /\ \A f \in Feeds :
          /\ Len(ItemsFrom(f, cachedFeeds.items)) <= maxItemsPerFeed
          /\ FirstEntries(ItemsFrom(f, cachedFeeds.items))
    /\ Len(cachedFeeds.items) <= maxItemsPerFeed * NumFeeds

\* a feed of more than maxItemsPerFeed entries has been worked through: the
\* source holds maxItemsPerFeed items and nothing is left waiting
C16_Witness ==
    \E c \in DOMAIN cycles :
        LET p == cycles[c].proc[FeedOrder[1]] IN
        /\ p.rawCount > maxItemsPerFeed
        /\ p.pc = "done" /\ p.raw = <<>>
        /\ Len(p.items) = maxItemsPerFeed


\* --------------------------------------------------------------------------
\* C20 Item id uniqueness: within any single published snapshot no two
\* items have the same id (source name, timestamp, position of the item in
\* the result of its source).
\* --------------------------------------------------------------------------

C20_UniqueIds ==
    \A i, j \in 1..Len(cachedFeeds.items) :
        cachedFeeds.items[i].id = cachedFeeds.items[j].id => i = j

\* a snapshot with several items of one source and an item of another
C20_Witness ==
    \E i, j, k \in 1..Len(cachedFeeds.items) :
        /\ i # j
        /\ cachedFeeds.items[i].source = cachedFeeds.items[j].source
        /\ cachedFeeds.items[i].id[2] = cachedFeeds.items[j].id[2]
        /\ cachedFeeds.items[k].source # cachedFeeds.items[i].source


\* --------------------------------------------------------------------------
\* C17 Unparseable publish date: every feed entry whose publish date cannot
\* be parsed as a timestamp is still surfaced as an item, with pubDate set to
\* the extraction time.
\* --------------------------------------------------------------------------

\* the processor of f has just finished with the entry at the head of raw
EntryHandled(c, f) ==
    /\ c \in DOMAIN cycles /\ c \in DOMAIN cycles'
    /\ cycles[c].proc[f].raw # <<>>
    /\ Len(cycles'[c].proc[f].raw) < Len(cycles[c].proc[f].raw)

\* it has pushed an item for it
ItemPushed(c, f) ==
    /\ EntryHandled(c, f)
    /\ Len(cycles'[c].proc[f].items) = Len(cycles[c].proc[f].items) + 1

PushedItem(c, f) == cycles'[c].proc[f].items[Len(cycles'[c].proc[f].items)]

C17_UnparseableDate ==
    [][\A c \in DOMAIN cycles : \A f \in Feeds :
         (EntryHandled(c, f) /\ Head(cycles[c].proc[f].raw).pubDate.kind = "invalid")
            => ItemPushed(c, f) /\ PushedItem(c, f).pubDate = now]_vars

\* --------------------------------------------------------------------------
\* C18 fullText is always populated: for every item of every snapshot built
\* by a cycle fullText is non-null; it is the extractor's text when the
\* extractor returned non-empty text, and otherwise the HTML-stripped feed
\* description.
\* --------------------------------------------------------------------------

C18_FullTextPopulated ==
    /\ [](\A it \in Range(cachedFeeds.items) : ~it.fullText.isNull)
    /\ [][\A c \in DOMAIN cycles : \A f \in Feeds : \A article \in RichArticles :
            (ExtractWith(c, f, article) /\ ItemPushed(c, f)) =>
               LET text == extractArticleContent(article).fullText
                   rawItem == Head(cycles[c].proc[f].raw)
               IN  /\ ~PushedItem(c, f).fullText.isNull
                   /\ PushedItem(c, f).fullText =
                        (IF ~text.isNull /\ length(text) > 0 THEN text
                         ELSE stripHtml(rawItem.description))]_vars

\* a snapshot with an item whose fullText is its stripped description, which
\* is longer than the description of the item
C18_Witness ==
    \E it \in Range(cachedFeeds.items) :
        /\ it.fullText = Html(0, DescriptionLimit + 1)
        /\ length(it.description) = DescriptionLimit

\* --------------------------------------------------------------------------
\* C19 Field length bounds: for every item of every snapshot built by a
\* cycle, description has at most 300 characters and fullText has at most
\* 2000 characters, whichever path produced fullText.
\* --------------------------------------------------------------------------

C19_LengthBounds ==
    \A it \in Range(cachedFeeds.items) :
        /\ length(it.description) <= DescriptionLimit
        /\ length(it.fullText) <= ContentLimit


\* --------------------------------------------------------------------------
\* C21 Whole-cycle failure: a cycle in which every configured source fails
\* still publishes a new snapshot, with a fresh lastUpdated, an empty items
\* sequence and every configured source marked success = false, and the save
\* writes that snapshot in place of the previous one.
\* --------------------------------------------------------------------------

AllFailed(c) == \A f \in Feeds : ~cycles[c].proc[f].success

C21_WholeCycleFailure ==
    [][\A c \in DOMAIN cycles :
          (Publish(c) /\ AllFailed(c)) =>
             /\ cachedFeeds' # cachedFeeds
             /\ cachedFeeds'.fields = AllFields
             /\ cachedFeeds'.lastUpdated = now
             /\ cachedFeeds'.lastUpdated > cachedFeeds.lastUpdated
             /\ cachedFeeds'.items = <<>>
             /\ DOMAIN cachedFeeds'.feedStatus = Feeds
             /\ \A f \in Feeds : /\ ~cachedFeeds'.feedStatus[f].success
                                 /\ cachedFeeds'.feedStatus[f].itemCount = 0
             /\ FinishSaved(c) => /\ FileExists(file') /\ Parseable(file'[2])
                                  /\ JSONparse(file'[2]) = cachedFeeds'
                                  /\ file' # file]_vars

\* the process found a saved snapshot with items, and the cycle that it then
\* ran failed for every source: the snapshot and the file hold no item
C21_Witness ==
    /\ phase = "serving" /\ ~isRefreshing
    /\ cachedFeeds.lastUpdated > StartTime
    /\ cachedFeeds.items = <<>>
    /\ \A f \in Feeds : ~cachedFeeds.feedStatus[f].success
    /\ FileExists(file) /\ Parseable(file[2]) /\ JSONparse(file[2]) = cachedFeeds


\* --------------------------------------------------------------------------
\* C22 Cycle ordering and no cancellation: within a cycle the Running flag
\* is set before any source processor starts, the new snapshot is published
\* only after every source processor has returned, persistence is attempted
\* only after publication, and Idle is restored only after the persistence
\* attempt; no read request, clear operation or further refresh request
\* arriving mid-cycle cancels the cycle or makes it return to Idle early.
\* --------------------------------------------------------------------------

\* the step is the tail of cycle c: every processor has returned, the
\* snapshot built from their results is published, the save has been tried
\* with it, and the flag is cleared
CycleTail(c) ==
    /\ \A f \in Feeds : cycles[c].proc[f].pc = "done"
    /\ cycles' = RemoveAt(cycles, c)
    /\ cachedFeeds'.lastUpdated = now
    /\ \A f \in Feeds : cachedFeeds'.feedStatus[f].success = cycles[c].proc[f].success
    /\ \/ FileExists(file') /\ Parseable(file'[2]) /\ JSONparse(file'[2]) = cachedFeeds'
       \/ file' \in {file, FileWith(<<"garbage">>)}
    /\ ~isRefreshing'

\* a request, a clear or a refresh trigger
Arrival ==
    \/ GetFeeds \/ GetStatus \/ PostRefresh \/ DeleteCache
    \/ CliRefresh \/ CliClear \/ CliToggleAuto \/ TimerTick

C22_CycleOrdering ==
    \* processors run only under the flag, and start from their beginning
    /\ [](cycles # <<>> => isRefreshing)
    /\ [][Len(cycles') > Len(cycles) =>
            /\ ~isRefreshing /\ isRefreshing'
            /\ Len(cycles') = Len(cycles) + 1
            /\ \A f \in Feeds : cycles'[Len(cycles')].proc[f] = ProcStart]_vars
    \* while the flag is set, a snapshot with a date is published, a snapshot
    \* file is written, the flag is cleared and a cycle leaves only in the
    \* tail of a cycle
    /\ [][(/\ isRefreshing
           /\ \/ cachedFeeds' # cachedFeeds /\ cachedFeeds'.lastUpdated # NullTime
              \/ file' # file /\ FileExists(file')
              \/ ~isRefreshing'
              \/ Len(cycles') < Len(cycles))
              => \E c \in DOMAIN cycles : CycleTail(c)]_vars
    \* nothing that arrives mid-cycle touches the cycle
    /\ [][(isRefreshing /\ Arrival) => UNCHANGED <<cycles, isRefreshing>>]_vars

\* a clear was answered while the cycle was running, and the cycle goes on:
\* one processor has returned with an item, another is still at work
C22_Witness ==
    /\ isRefreshing /\ sinceClear /\ answer = "200"
    /\ Len(cycles) = 1
    /\ \E f, g \in Feeds :
          /\ cycles[1].proc[f].pc = "done" /\ Len(cycles[1].proc[f].items) > 0
          /\ cycles[1].proc[g].pc # "done"


\* --------------------------------------------------------------------------
\* C23 Cycle termination: every started cycle eventually returns to Idle,
\* for every combination of per-source and per-entry outcomes and even if
\* the final save fails, provided each network operation eventually
\* completes, fails or reaches its timeout; the Running flag is never left
\* set forever.
\* --------------------------------------------------------------------------

C23_CycleTermination == isRefreshing ~> (~isRefreshing /\ cycles = <<>>)

\* idle again after a cycle in which a source failed, another returned an
\* item, and the save failed
C23_Witness ==
    /\ ~isRefreshing /\ cycles = <<>>
    /\ cachedFeeds.lastUpdated > StartTime
    /\ \E f, g \in Feeds : /\ ~cachedFeeds.feedStatus[f].success
                          /\ cachedFeeds.feedStatus[g].itemCount > 0
    /\ file = FileWith(<<"garbage">>)


\* --------------------------------------------------------------------------
\* C24 Durable-write frame, as claimed: the snapshot file and the asset
\* directory are written only from within a completed cycle or an explicit
\* clear; while a cycle is still in progress no durable write occurs, and
\* load, GET /api/feeds and GET /api/status never modify durable state.
\* --------------------------------------------------------------------------

Clear == DeleteCache \/ CliClear

\* the step ends a cycle
CycleCompletes == isRefreshing /\ ~isRefreshing' /\ Len(cycles') < Len(cycles)

ReadOnly == [][(Listen \/ GetFeeds \/ GetStatus) => UNCHANGED <<file, imagesDir>>]_vars

C24_DurableWriteFrame ==
    /\ [][(file' # file \/ imagesDir' # imagesDir) => (CycleCompletes \/ Clear)]_vars
    /\ ReadOnly

\* C24 as amended: the snapshot file is written only in the tail of a cycle
\* and removed only by a clear. The asset directory is written while the
\* cycle is in progress: a step adds at most one asset, it is the favicon or
\* the image that a running source processor has just downloaded, and the
\* processor holds the local reference to it; assets are removed only by a
\* clear. load, GET /api/feeds and GET /api/status never modify either.
Downloaded(c, f) ==
    LET p == cycles[c].proc[f]
        q == cycles'[c].proc[f]
    IN  \/ /\ p.pc = "favicon"
           /\ imagesDir' = imagesDir \cup {faviconFilename(f)}
           /\ q.icon = Local(faviconFilename(f))
        \/ /\ p.pc = "image"
           /\ imagesDir' = imagesDir \cup {urlToFilename(p.best)}
           /\ Len(q.items) = Len(p.items) + 1
           /\ q.items[Len(q.items)].image = Local(urlToFilename(p.best))

C24_DurableWrites ==
    /\ [][file' # file => (CycleCompletes \/ (Clear /\ file' = Absent))]_vars
    /\ [][imagesDir' # imagesDir =>
            \/ Clear /\ imagesDir' \subseteq imagesDir
            \/ /\ isRefreshing /\ isRefreshing' /\ file' = file
               /\ \E c \in DOMAIN cycles : \E f \in Feeds : Downloaded(c, f)]_vars
    /\ ReadOnly

\* a favicon and an image are in the asset directory while the cycle that
\* downloaded them is still running and no snapshot file has been written
C24_Witness ==
    /\ isRefreshing /\ file = Absent /\ ~sinceClear
    /\ \E f \in Feeds : faviconFilename(f) \in imagesDir
    /\ \E u \in Urls : urlToFilename(Remote(u)) \in imagesDir


\* --------------------------------------------------------------------------
\* C25 Per-entry failure isolation: if building one entry of a source
\* throws, that entry alone is absent from the result of the source; every
\* other entry (within the per-source maximum) is present in its original
\* relative order, the source is still reported success = true with error
\* null, its itemCount is the number of surviving items, and an entry is
\* processed independently of how earlier entries ended.
\* --------------------------------------------------------------------------

\* building the entry throws
Throws(rawItem) == rawItem.pubDate.kind = "invalid"

C25_EntryIsolation ==
    \* one entry handled: an item for it or not, the rest still to come
    /\ [][\A c \in DOMAIN cycles : \A f \in Feeds :
            EntryHandled(c, f) =>
               LET p == cycles[c].proc[f]
                   q == cycles'[c].proc[f]
               IN  /\ q.raw = Tail(p.raw)
                   /\ q.pc = IF q.raw = <<>> THEN "done" ELSE "extract"
                   /\ q.success /\ q.error = Undefined
                   /\ IF Throws(Head(p.raw))
                        THEN q.items = p.items
                        ELSE /\ Len(q.items) = Len(p.items) + 1
                             /\ SubSeq(q.items, 1, Len(p.items)) = p.items
                             /\ q.items[Len(q.items)].link = Head(p.raw).link]_vars
    \* the status of a source that was read tells the items that survived
    /\ [][\A c \in DOMAIN cycles : \A f \in Feeds :
            (Publish(c) /\ cycles[c].proc[f].success) =>
               /\ cachedFeeds'.feedStatus[f] =
                      [success |-> TRUE, itemCount |-> Len(cycles[c].proc[f].items),
                       error |-> Null]
               /\ Len(ItemsFrom(f, cachedFeeds'.items)) = Len(cycles[c].proc[f].items)]_vars

\* the second of three entries threw: the snapshot holds the first and the
\* third, and the source is reported as read with two items
C25_Witness ==
    /\ cachedFeeds.lastUpdated # NullTime
    /\ cachedFeeds.feedStatus[FeedOrder[1]] =
          [success |-> TRUE, itemCount |-> 2, error |-> Null]
    /\ {it.link : it \in Range(ItemsFrom(FeedOrder[1], cachedFeeds.items))} = {1, 3}


\* --------------------------------------------------------------------------
\* C26 Extraction failure degrades, it does not drop: extract never throws;
\* on any internal failure it returns fullText, image and author all null,
\* and the processor still emits the item, with fullText equal to the
\* stripped feed description, image taken from the feed reader's image
\* (cached path, else original URL, else null) and author null.
\* --------------------------------------------------------------------------

\* the item that a failed extraction has to end in, for the entry rawItem
\* and the image reference that the cache gave
Degraded(it, rawItem, cachedImageUrl) ==
    /\ it.link = rawItem.link
    /\ it.fullText = stripHtml(rawItem.description)
    /\ it.author = Null
    /\ it.image = (IF Truthy(cachedImageUrl) THEN cachedImageUrl
                   ELSE ResolveImage(rawItem.image))

C26_ExtractionDegrades ==
    /\ [](extractArticleContent(NoArticle)
             = [fullText |-> NullText, image |-> Null, author |-> Null])
    \* the extraction fails: the item is pushed at once, or the image of the
    \* reader is being downloaded for it
    /\ [][\A c \in DOMAIN cycles : \A f \in Feeds :
            ExtractWith(c, f, NoArticle) =>
               LET p == cycles[c].proc[f]
                   q == cycles'[c].proc[f]
                   rawItem == Head(p.raw)
               IN  \/ /\ ItemPushed(c, f)
                      /\ Degraded(PushedItem(c, f), rawItem,
                                  IF Truthy(rawItem.image)
                                    THEN Local(urlToFilename(ResolveImage(rawItem.image)))
                                    ELSE Null)
                      /\ Truthy(rawItem.image)
                            => urlToFilename(ResolveImage(rawItem.image)) \in imagesDir
                   \/ /\ q.pc = "image"
                      /\ q.raw = [p.raw EXCEPT ![1].image = ResolveImage(rawItem.image)]
                      /\ q.items = p.items
                      /\ q.best = ResolveImage(rawItem.image) /\ Truthy(rawItem.image)
                      /\ q.fullText = stripHtml(rawItem.description)
                      /\ q.author = Null]_vars
    \* the download settles: the item is pushed with what the extraction left
    /\ [][\A c \in DOMAIN cycles : \A f \in Feeds :
            (cycles[c].proc[f].pc = "image" /\ c \in DOMAIN cycles'
                /\ cycles'[c].proc[f] # cycles[c].proc[f]) =>
               LET p == cycles[c].proc[f]
                   it == PushedItem(c, f)
               IN  /\ ItemPushed(c, f)
                   /\ it.link = Head(p.raw).link
                   /\ it.fullText = p.fullText /\ it.author = p.author
                   /\ it.image = (IF imagesDir' # imagesDir \/ ImageFetched(c, f)
                                    THEN Local(urlToFilename(p.best)) ELSE p.best)]_vars


\* --------------------------------------------------------------------------
\* C27 Image selection: for every entry the chosen image is the extractor's
\* image if present, else the feed reader's image, else none; a chosen
\* relative URL is resolved against the article's origin before it is
\* handed to the image cache; the item's image is the local cached reference
\* when caching succeeded, the chosen (resolved, absolute) remote URL when
\* caching returned null, and null only when neither extractor nor reader
\* found an image; likewise sourceIcon is the cached favicon reference, else
\* the configured icon URL.
\* --------------------------------------------------------------------------

\* a URL, relative or not, as the absolute URL it stands for at the article
AbsoluteUrl(ref) ==
    IF ref[1] \in {"rooted", "relative"} THEN Remote(AtOrigin(ref[2])) ELSE ref

\* the image chosen for the entry at the head of raw
Chosen(article, rawItem) ==
    IF ~article.isNull /\ Truthy(article.image) THEN article.image ELSE rawItem.image

IconOf(p, f) == IF p.icon = Local(faviconFilename(f)) THEN p.icon ELSE IconUrl(f)

C27_ImageSelection ==
    \* the extraction settles: the chosen image, resolved, is in the cache and
    \* the item refers to the cached file; or it goes to the image cache; or
    \* there is none and the item has none
    /\ [][\A c \in DOMAIN cycles : \A f \in Feeds : \A article \in RichArticles :
            ExtractWith(c, f, article) =>
               LET p == cycles[c].proc[f]
                   q == cycles'[c].proc[f]
                   url == AbsoluteUrl(Chosen(article, Head(p.raw)))
               IN  IF q.pc = "image"
                     THEN Truthy(url) /\ q.best = url
                     ELSE ItemPushed(c, f) =>
                            /\ PushedItem(c, f).image =
                                  (IF Truthy(url) THEN Local(urlToFilename(url)) ELSE Null)
                            /\ Truthy(url) => urlToFilename(url) \in imagesDir
                            /\ PushedItem(c, f).sourceIcon = IconOf(p, f)]_vars
    \* the image cache returns: the local reference, or null and the item
    \* keeps the absolute URL
    /\ [][\A c \in DOMAIN cycles : \A f \in Feeds :
            (cycles[c].proc[f].pc = "image" /\ ItemPushed(c, f)) =>
               LET p == cycles[c].proc[f]
                   it == PushedItem(c, f)
               IN  /\ p.best[1] = "remote"
                   /\ it.image = (IF ImageFetched(c, f)
                                    THEN Local(urlToFilename(p.best)) ELSE p.best)
                   /\ ImageFetched(c, f) => urlToFilename(p.best) \in imagesDir'
                   /\ it.sourceIcon = IconOf(p, f)]_vars
    \* the icon of a processor is the cached favicon, or none
    /\ [](\A c \in DOMAIN cycles : \A f \in Feeds :
            cycles[c].proc[f].icon \in {Null, Local(faviconFilename(f))})


\* --------------------------------------------------------------------------
\* C28 Startup trigger decision: at process start a cycle is triggered if
\* and only if the loaded snapshot has no lastUpdated, or has zero items, or
\* its age exceeds the refresh interval; otherwise no cycle is started at
\* startup and the loaded snapshot is served unchanged until a timer tick
\* or a manual refresh.
\* --------------------------------------------------------------------------

\* the decision as claimed, on the snapshot that loadCache left
StaleOrEmpty(v) ==
    \/ v.lastUpdated = NullTime
    \/ Len(v.items) = 0
    \/ now - v.lastUpdated > FETCH_INTERVAL

CycleStarts == Len(cycles') = Len(cycles) + 1 /\ isRefreshing'

C28_StartupDecision ==
    /\ [][Listen =>
            /\ cachedFeeds' = loadCache
            /\ CycleStarts <=> StaleOrEmpty(cachedFeeds')
            /\ ~CycleStarts => /\ phase' = "serving" /\ cli'
                               /\ UNCHANGED <<isRefreshing, cycles>>]_vars
    \* afterwards only a timer tick or a manual refresh starts a cycle
    /\ [][(phase = "serving" /\ CycleStarts) => (TimerTick \/ PostRefresh \/ CliRefresh)]_vars


\* --------------------------------------------------------------------------
\* C29 Favicon slot, as claimed: each source has exactly one favicon slot,
\* keyed by its sanitized name (non-alphanumeric characters replaced by '-',
\* lowercased); when a later source has the same sanitized name, its favicon
\* overwrites the asset stored in that slot.
\* --------------------------------------------------------------------------

\* the sanitized name, as the claim words it
Sanitized(name) ==
    [i \in DOMAIN name |-> IF name[i] \in {"a", "A"} THEN "a" ELSE "-"]

SameName == Sanitized(client.src[1].name) = Sanitized(client.src[2].name)

\* the file of slot holds the icon of source i
Holds(slot, i) == <<slot, i>> \in client.stored

\* source i has been handed the reference to its slot
Served(i) == client.pc[i] = "done" /\ client.ret[i] = Local(IconFile(client.src[i]))

C29_FaviconSlot ==
    /\ IconFile(client.src[1]) = IconFile(client.src[2]) => SameName
    /\ (/\ IconFile(client.src[1]) = IconFile(client.src[2])
        /\ Served(1) /\ Served(2)) => Holds(IconFile(client.src[2]), 2)

\* C29 as amended: the slot of a source is keyed by its sanitized name and
\* the extension of its icon URL ('.ico' when it has none), and holds one
\* asset. A source whose slot is already filled is handed the stored asset
\* without a download, whichever source it came from: a later source with
\* the same key overwrites nothing, unless its download was started before
\* the file was written.
SameKey ==
    /\ Sanitized(client.src[1].name) = Sanitized(client.src[2].name)
    /\ IconExt(client.src[1].ext) = IconExt(client.src[2].ext)

C29_SlotShared ==
    /\ [](/\ SameKey <=> IconFile(client.src[1]) = IconFile(client.src[2])
          /\ \A slot \in imagesDir : Cardinality({e \in client.stored : e[1] = slot}) = 1
          /\ \A i \in 1..2 : Served(i) => IconFile(client.src[i]) \in imagesDir)
    /\ [][\A i \in 1..2 :
            (IconCall(i) /\ IconFile(client.src[i]) \in imagesDir) =>
                /\ client'.stored = client.stored /\ imagesDir' = imagesDir
                /\ ~client'.req[i] /\ Served(i)']_vars
    /\ [][\A i \in 1..2 :
            client'.stored # client.stored =>
                (\E j \in 1..2 : client.pc[j] = "fetch" /\ client.req[j]
                                    /\ Holds(IconFile(client.src[j]), j)')]_vars

\* the later source has the key of the earlier one and was handed the asset
\* of the earlier one, without a download
C29_Witness ==
    /\ client.src[1].name # client.src[2].name
    /\ SameKey /\ Served(1) /\ Served(2)
    /\ ~client.req[2]
    /\ Holds(IconFile(client.src[2]), 1)


\* --------------------------------------------------------------------------
\* C30 Fallback chain precedence: the image of an entry is the result of the
\* first rule that matches, in the order (1) standard img src, (2) og:image
\* meta, (3) twitter:image meta, (4) WordPress featured-image class, (5) img
\* whose src ends in an image extension, all against the description, then
\* (6) img src in the content field, consulted only when the description
\* yielded nothing; the image is null when no rule matches. A description
\* with a standard img tag and an og:image meta tag of different URLs yields
\* the URL of the img tag.
\* --------------------------------------------------------------------------

\* what rule n finds in an entry
RuleResult(n, description, content) ==
    CASE n = 1 -> match(description, "StandardImg", 1)
      [] n = 2 -> match(description, "OgImage", 1)
      [] n = 3 -> match(description, "TwitterImage", 1)
      [] n = 4 -> match(description, "WpPostImage", 1)
      [] n = 5 -> match(description, "ImageExtension", 1)
      [] n = 6 -> match(content, "StandardImg", 1)

\* the rules that match an entry
Matching(description, content) ==
    {n \in 1..6 : RuleResult(n, description, content) # Null}

\* a standard img tag and an og:image meta tag of different URLs
ImgAndOgImage(description) ==
    \E i, j \in DOMAIN description :
        /\ StandardImg(description[i]) /\ OgImage(description[j])
        /\ description[i].url # description[j].url

C30_FallbackPrecedence ==
    client.pc = "mapped" =>
        LET rules == Matching(client.description, client.content)
            first == CHOOSE n \in rules : \A m \in rules : n <= m
        IN /\ rules = {} => client.image = Null
           /\ rules # {} =>
                  client.image = RuleResult(first, client.description, client.content)
           /\ ImgAndOgImage(client.description) =>
                  \E i \in DOMAIN client.description :
                      /\ client.description[i].tag = "img"
                      /\ client.image = Captured(client.description[i].url)

\* the meta tag comes first in the description, and the img tag has won
C30_Witness ==
    /\ client.pc = "mapped"
    /\ Len(client.description) = 2
    /\ OgImage(client.description[1])
    /\ StandardImg(client.description[2])
    /\ client.description[1].url # client.description[2].url
    /\ client.image = Captured(client.description[2].url)


\* --------------------------------------------------------------------------
\* C31 Truncation bound: of an extracted article whose normalized text is
\* longer than 2000 characters, fullText is the first 2000 characters of the
\* normalized text followed by the 3-character marker, 2003 characters in
\* all; a normalized text of 1 to 2000 characters is fullText unchanged,
\* without a marker.
\* --------------------------------------------------------------------------

\* the normalized text of the article
Normalized == collapseWhitespace(replaceTags(client.content))

\* front holds the first characters of text: its runs are the runs of
\* text, the last one of them possibly shorter
LeadingPart(front, text) ==
    /\ front # <<>> /\ Len(front) <= Len(text)
    /\ \A i \in 1..(Len(front) - 1) : front[i] = text[i]
    /\ front[Len(front)].ch = text[Len(front)].ch
    /\ front[Len(front)].n <= text[Len(front)].n

C31_TruncationBound ==
    client.pc = "returned" =>
        /\ TextLength(Normalized) > 2000 =>
              /\ TextLength(client.fullText) = 2003
              /\ client.fullText[Len(client.fullText)] = Piece(".", 3)
              /\ TextLength(SubSeq(client.fullText, 1, Len(client.fullText) - 1)) = 2000
              /\ LeadingPart(SubSeq(client.fullText, 1, Len(client.fullText) - 1),
                             Normalized)
        /\ (TextLength(Normalized) >= 1 /\ TextLength(Normalized) <= 2000) =>
              /\ client.fullText = Normalized
              /\ \A i \in DOMAIN client.fullText : client.fullText[i].ch # "."

\* a content of 5000 characters and more, cut within its second word
C31_Witness ==
    /\ client.pc = "returned"
    /\ \E i \in DOMAIN client.content : client.content[i].ch \in {"</p>", "<b>"}
    /\ TextLength(Normalized) > 5000
    /\ Len(client.fullText) = 4
    /\ client.fullText[3].n < Normalized[3].n
    /\ TextLength(client.fullText) = 2003

\* a text of exactly 2000 characters, returned as it is
C31_WitnessAtLimit ==
    /\ client.pc = "returned"
    /\ TextLength(Normalized) = 2000
    /\ client.fullText = Normalized


\* --------------------------------------------------------------------------
\* C32 Status bookkeeping: after every completed cycle feedStatus and
\* feedTimestamps have exactly the configured source names as keys; the
\* itemCount of a source is the number of snapshot items of that source; a
\* source with success = false has itemCount 0 and no items in the snapshot;
\* and the number of items is the sum of all itemCounts.
\* --------------------------------------------------------------------------

\* the sum of the itemCounts of the sources from position i on
RECURSIVE SumOfCounts(_, _)
SumOfCounts(feedStatus, i) ==
    IF i > Len(FeedOrder) THEN 0
    ELSE feedStatus[FeedOrder[i]].itemCount + SumOfCounts(feedStatus, i + 1)

Bookkept(v) ==
    /\ DOMAIN v.feedStatus = Feeds
    /\ DOMAIN v.feedTimestamps = Feeds
    /\ \A f \in Feeds :
         /\ v.feedStatus[f].itemCount = Cardinality({i \in DOMAIN v.items : v.items[i].source = f})
         /\ ~v.feedStatus[f].success =>
               /\ v.feedStatus[f].itemCount = 0
               /\ \A i \in DOMAIN v.items : v.items[i].source # f
    /\ Len(v.items) = SumOfCounts(v.feedStatus, 1)

C32_StatusBookkeeping == [][CycleCompletes => Bookkept(cachedFeeds')]_vars

\* a completed cycle: the second source failed, the first one yielded two
\* items
C32_Witness ==
    /\ ~isRefreshing /\ cycles = <<>>
    /\ cachedFeeds.fields = AllFields
    /\ DOMAIN cachedFeeds.feedStatus = Feeds
    /\ ~cachedFeeds.feedStatus["f2"].success
    /\ cachedFeeds.feedStatus["f1"].success
    /\ cachedFeeds.feedStatus["f1"].itemCount = 2
    /\ Len(cachedFeeds.items) = 2


\* --------------------------------------------------------------------------
\* C33 Local references stay valid: in every reachable state, also when a
\* clear interleaves with a running cycle, each item of the published
\* snapshot whose image or sourceIcon is a local reference names an asset
\* that is present in the asset directory.
\* --------------------------------------------------------------------------

\* ref is no local reference, or the asset it names is there
Valid(ref) == ref[1] = "/images/" => <<ref[2], ref[3]>> \in imagesDir

C33_LocalReferencesValid ==
    \A i \in DOMAIN cachedFeeds.items :
        Valid(cachedFeeds.items[i].image) /\ Valid(cachedFeeds.items[i].sourceIcon)


\* --------------------------------------------------------------------------
\* C34 Save failure is contained: when writing the snapshot file fails at
\* the end of a cycle, the newly built snapshot is published in memory all
\* the same, the cycle returns to Idle, no error reaches the trigger (timer,
\* CLI, HTTP), and later cycles can still start.
\* --------------------------------------------------------------------------

\* the step starts a cycle
CycleBegins == ~isRefreshing /\ isRefreshing' /\ Len(cycles') = Len(cycles) + 1

\* cycles completed so far, as BeginCycle counts them
Completed == now - StartTime - Len(cycles)

C34_SaveFailureContained ==
    /\ [][\A c \in DOMAIN cycles :
            FinishSaveFailed(c) =>
                /\ cachedFeeds'.fields = AllFields
                /\ cachedFeeds'.lastUpdated = now
                /\ cachedFeeds'.items = MergeItems(cycles[c].proc)
                /\ \A f \in Feeds :
                      cachedFeeds'.feedStatus[f].success = cycles[c].proc[f].success
                /\ ~isRefreshing' /\ cycles' = RemoveAt(cycles, c)
                /\ phase' = "serving" /\ answer' = answer
                /\ cycles[c].thenCLI => cli']_vars
    /\ []((phase = "serving" /\ ~isRefreshing /\ Completed < MaxCycles) =>
            /\ ENABLED (PostRefresh /\ CycleBegins)
            /\ cli => ENABLED (CliRefresh /\ CycleBegins)
            /\ autoRefreshTimer => ENABLED (TimerTick /\ CycleBegins))

\* a later cycle runs while the snapshot of the cycle before it, whose save
\* failed, is published in memory only
C34_Witness ==
    /\ isRefreshing /\ Len(cycles) = 1
    /\ cachedFeeds.lastUpdated # NullTime
    /\ Len(cachedFeeds.items) > 0
    /\ ~(FileExists(file) /\ Parseable(file[2]) /\ JSONparse(file[2]) = cachedFeeds)


\* --------------------------------------------------------------------------
\* C35 Periodic timer toggle: the periodic timer is disabled at startup;
\* each CLI auto-refresh command flips it between enabled and disabled; at
\* most one periodic timer exists at any time, after any sequence of
\* toggles; while it is disabled no periodic cycle request is issued, and
\* while it is enabled a tick only issues a cycle request, which is subject
\* to the at-most-one-cycle guard.
\* --------------------------------------------------------------------------

TimerEnabled == client.timer # NoTimer

\* some interval of the event loop can fire
Ticking == \E handle \in 1..MaxToggles : ENABLED IntervalFires(handle)

C35_TimerToggle ==
    /\ ~TimerEnabled /\ client.live = {}
    /\ [][CliToggleTimer => (TimerEnabled' <=> ~TimerEnabled)]_vars
    /\ [](/\ Cardinality(client.live) <= 1
          /\ TimerEnabled <=> client.live = {client.timer}
          /\ ~TimerEnabled => (client.live = {} /\ ~Ticking)
          /\ Len(cycles) <= 1)
    /\ [][\A handle \in 1..MaxToggles :
            IntervalFires(handle) =>
                /\ TimerEnabled /\ UNCHANGED <<cachedFeeds, file, imagesDir, client>>
                /\ IF isRefreshing
                     THEN answer' = "stale" /\ UNCHANGED <<cycles, isRefreshing>>
                     ELSE CycleBegins]_vars

\* the timer was enabled, disabled and enabled again; its one interval
\* has fired while a cycle was running
C35_Witness ==
    /\ client.made = 2 /\ client.live = {2}
    /\ isRefreshing /\ answer = "stale"


\* --------------------------------------------------------------------------
\* C36 CLI any-key dismissal: while the feed-status view or the request-log
\* view waits for a key, the key press that dismisses the view only returns
\* to the menu: it starts no refresh, clears no cache, does not toggle the
\* timer and does not quit the process. (The interrupt, ctrl-c, is left out
\* of the keys meant.)
\* --------------------------------------------------------------------------

C36_AnyKeyDismissal ==
    [][\A key \in Keys \ {"ctrl-c"} :
          (KeyPress(key) /\ client.waiting > 0) =>
              /\ client'.view = "menu" /\ client'.waiting = 0
              /\ UNCHANGED <<phase, cachedFeeds, isRefreshing, autoRefreshTimer, file,
                             imagesDir, cycles, sinceClear>>]_vars

\* the dismissal by keys that are no commands
C36_PlainKeyDismissal ==
    [][(KeyPress("x") /\ client.waiting > 0) =>
          /\ client'.view = "menu" /\ client'.waiting = 0
          /\ UNCHANGED <<phase, cachedFeeds, isRefreshing, autoRefreshTimer, file,
                         imagesDir, cycles, sinceClear>>]_vars


\* --------------------------------------------------------------------------
\* C37 Auto-scroll wraps and keeps going: with auto-scroll on, auto-focus
\* off, not paused and at least one item rendered, advancing from the last
\* item wraps the index to the first item and auto-scrolling continues: the
\* scroll-in-progress flag is eventually cleared and a further advance is
\* eventually scheduled, so that the index keeps cycling through all items.
\* --------------------------------------------------------------------------

\* the last item is reached and the advance from it is scheduled
AtLastItem ==
    /\ client.index = client.n - 1
    /\ ~client.scrollAnimation /\ client.timers # <<>>

\* the first item is reached, no scroll is in progress and an advance is
\* scheduled
Continuing ==
    /\ client.index = 0
    /\ ~client.scrollAnimation /\ client.timers # <<>> /\ ~client.thrown

C37_AutoScrollWraps ==
    /\ AtLastItem ~> Continuing
    /\ \A i \in 0..(MaxItems - 1) : i < client.n => []<>(client.index = i)


\* --------------------------------------------------------------------------
\* C38 Direct-fetch retry bound: fetchRSSFeed makes at most
\* MAX_RETRIES + 1 = 2 attempts per feed and load, waits RETRY_DELAY before
\* the retry, returns the parsed items of the first successful attempt, and
\* after the last failed attempt resolves with an empty list instead of
\* rejecting, so that the failure of one feed never rejects the parallel
\* load of the other feeds.
\* --------------------------------------------------------------------------

\* the attempts of a call that succeeded
Successes(call) == {k \in DOMAIN call.outcomes : call.outcomes[k][1] = "items"}

C38_RetryBound ==
    /\ [](\A f \in Feeds :
            LET call == client.feed[f] IN
            /\ Len(call.outcomes) + (IF call.pc = "fetch" THEN 1 ELSE 0) <= 2
            /\ call.pc \in {"fetch", "wait", "resolved"}
            /\ call.pc = "resolved" =>
                  IF Successes(call) # {}
                    THEN /\ Successes(call) = {Len(call.outcomes)}
                         /\ call.value.from = Len(call.outcomes)
                         /\ call.value.items = call.outcomes[Len(call.outcomes)][2]
                    ELSE /\ Len(call.outcomes) = 2
                         /\ call.value.items = 0)
    /\ [](client.load \in {"pending", "resolved"})
    /\ []((\A f \in Feeds : client.feed[f].pc = "resolved") => ENABLED LoadCompletes
                                                              \/ client.load = "resolved")
    /\ [][\A f \in Feeds :
            (client.feed[f].pc # "fetch" /\ client'.feed[f].pc = "fetch") =>
                /\ client.feed[f].outcomes = <<Failed>>
                /\ now >= client.feed[f].failedAt + 2000]_vars

\* the first feed has failed twice, the second one has got its items at
\* the retry, and the load has resolved
C38_Witness ==
    /\ client.load = "resolved"
    /\ client.feed["f1"].outcomes = <<Failed, Failed>>
    /\ client.feed["f1"].value.items = 0
    /\ client.feed["f2"].outcomes = <<Failed, Parsed(3)>>
    /\ client.feed["f2"].value = [items |-> 3, from |-> 2]

=============================================================================
